---- MODULE Spec2Model ----
(***************************************************************************)
(* The RESP wire codec of the redis crate: the nom token decoders, the     *)
(* serde Deserializer over a byte cursor, the DeserializeUntagged and      *)
(* Options derive macros, and the command structs built from them.         *)
(*                                                                         *)
(* A byte is a one-character string; a buffer (&[u8]) is a sequence of     *)
(* bytes.  A decoder is an operator from the remaining buffer to a result  *)
(* record [st, rest, val, err]: st = "ok" carries the value and the        *)
(* remaining buffer, st = "err" the error, st = "panic" an unwinding       *)
(* panic (unwrap, assert, unreachable).                                    *)
(***************************************************************************)
EXTENDS Integers, Sequences, FiniteSets, TLC

VARIABLES
    scen,    \* how the test buffer was put together (the caller's knowledge)
    buf,     \* the bytes handed to from_slice
    target,  \* the target shape requested from from_slice
    input,   \* Deserializer.input: the real cursor after the call
    res,     \* what the call produced
    pc,      \* "start" before the call, "done" after it
    overflow_checks, \* whether the build checks arithmetic overflow
    api,     \* the function the caller called
    ret,     \* what that function handed back to the caller
    dec,     \* the decodes callers run side by side on one buffer, per caller
    statics, \* client.rs: API_VERSION_SET, NETWORK_SETUP, NETWORK_STARTED
    fdbc,    \* the calls the FoundationDB C library has seen, and their outcomes
    thr,     \* the tasks that call into Client, per task
    txn      \* one run of the transaction retry wrapper exec(tx, f)

parser_vars == <<scen, buf, target, input, res, pc, overflow_checks, api, ret>>
client_vars == <<statics, fdbc, thr>>
\* the state outside the single decode call
other_vars == <<dec, client_vars, txn>>
vars == <<parser_vars, other_vars>>

(***************************************************************************)
(* Bytes                                                                   *)
(***************************************************************************)
CR == "\r"
LF == "\n"
CRLF == <<CR, LF>>
\* a byte that can occur in no UTF-8 text
BadByte == "0xFF"

Digits == <<"0", "1", "2", "3", "4", "5", "6", "7", "8", "9">>
Upper == <<"A", "B", "C", "D", "E", "F", "G", "H", "I", "J", "K", "L", "M",
           "N", "O", "P", "Q", "R", "S", "T", "U", "V", "W", "X", "Y", "Z">>
Lower == <<"a", "b", "c", "d", "e", "f", "g", "h", "i", "j", "k", "l", "m",
           "n", "o", "p", "q", "r", "s", "t", "u", "v", "w", "x", "y", "z">>

IsDigit(c) == \E k \in DOMAIN Digits : Digits[k] = c
DigitVal(c) == (CHOOSE k \in DOMAIN Digits : Digits[k] = c) - 1

Take(s, n) == SubSeq(s, 1, n)
Drop(s, n) == SubSeq(s, n + 1, Len(s))

IsSuffix(s, t) == Len(s) <= Len(t) /\ Drop(t, Len(t) - Len(s)) = s

\* the length of the longest prefix of s whose bytes are all in keep
RECURSIVE PrefixLen(_, _)
PrefixLen(s, keep) ==
    IF s = <<>> \/ Head(s) \notin keep THEN 0 ELSE 1 + PrefixLen(Tail(s), keep)

RECURSIVE PrefixLenNot(_, _)
PrefixLenNot(s, stop) ==
    IF s = <<>> \/ Head(s) \in stop THEN 0 ELSE 1 + PrefixLenNot(Tail(s), stop)

DigitSet == {Digits[k] : k \in DOMAIN Digits}

\* std::str::from_utf8 succeeds
IsUtf8(s) == \A k \in DOMAIN s : s[k] # BadByte

\* char::to_lowercase / str::to_lowercase on ASCII text
LowerChar(c) ==
    IF \E k \in DOMAIN Upper : Upper[k] = c
    THEN Lower[CHOOSE k \in DOMAIN Upper : Upper[k] = c]
    ELSE c
to_lowercase(s) == [k \in DOMAIN s |-> LowerChar(s[k])]

(***************************************************************************)
(* Results                                                                 *)
(***************************************************************************)
NoVal == <<>>
NoErr == [kind |-> "none"]

Ok(rest, val) == [st |-> "ok", rest |-> rest, val |-> val, err |-> NoErr]
Err(e) == [st |-> "err", rest |-> <<>>, val |-> NoVal, err |-> e]
Panic(why) == [st |-> "panic", rest |-> <<>>, val |-> NoVal,
               err |-> [kind |-> "panic", why |-> why]]

\* nom::error::Error { input, code }, later wrapped as Error::Parsing
NomError(code, at) == [kind |-> "Parsing", code |-> code, at |-> at]

(***************************************************************************)
(* Integers.  An i64 is kept as a sign and a magnitude in decimal digits   *)
(* without leading zeros, so that the widths of the program's integers     *)
(* (i64, u32, usize) are compared exactly.                                 *)
(***************************************************************************)
RECURSIVE StripZeros(_)
StripZeros(d) ==
    IF Len(d) > 1 /\ d[1] = "0" THEN StripZeros(Tail(d)) ELSE d

\* magnitude a < magnitude b, both without leading zeros
MagLess(a, b) ==
    \/ Len(a) < Len(b)
    \/ /\ Len(a) = Len(b)
       /\ \E k \in DOMAIN a :
            /\ DigitVal(a[k]) < DigitVal(b[k])
            /\ \A j \in 1..(k - 1) : a[j] = b[j]

I64MaxMag == <<"9", "2", "2", "3", "3", "7", "2", "0", "3", "6", "8", "5",
               "4", "7", "7", "5", "8", "0", "7">>
U32MaxMag == <<"4", "2", "9", "4", "9", "6", "7", "2", "9", "5">>
\* 512 * 1024 * 1024
BulkMaxMag == <<"5", "3", "6", "8", "7", "0", "9", "1", "2">>

IntVal(neg, mag) == [neg |-> neg /\ mag # <<"0">>, mag |-> mag]

\* the magnitude as a number, where it is small enough to index a buffer
RECURSIVE MagNat(_)
MagNat(m) ==
    IF m = <<>> THEN 0 ELSE MagNat(Take(m, Len(m) - 1)) * 10 + DigitVal(m[Len(m)])

(***************************************************************************)
(* nom combinators                                                         *)
(***************************************************************************)
\* nom::character::complete::char
char(c, i) ==
    IF i # <<>> /\ i[1] = c THEN Ok(Tail(i), <<c>>) ELSE Err(NomError("Char", i))

\* nom::bytes::complete::tag
tag(t, i) ==
    IF Len(i) >= Len(t) /\ Take(i, Len(t)) = t
    THEN Ok(Drop(i, Len(t)), t)
    ELSE Err(NomError("Tag", i))

\* nom::bytes::complete::is_not("\r\n")
is_not_crlf(i) ==
    LET n == PrefixLenNot(i, {CR, LF})
    IN  IF n = 0 THEN Err(NomError("IsNot", i)) ELSE Ok(Drop(i, n), Take(i, n))

\* nom::bytes::complete::take
take(n, i) ==
    IF Len(i) >= n THEN Ok(Drop(i, n), Take(i, n)) ELSE Err(NomError("Eof", i))

terminator(i) == tag(CRLF, i)

\* delimited(char(c), is_not("\r\n"), terminator)
delimited_line(c, i) ==
    LET third(b, t) == IF t.st # "ok" THEN t ELSE Ok(t.rest, b.val)
        second(b) == IF b.st # "ok" THEN b ELSE third(b, terminator(b.rest))
        first(a) == IF a.st # "ok" THEN a ELSE second(is_not_crlf(a.rest))
    IN  first(char(c, i))

(***************************************************************************)
(* Primitive token decoders (parser/protocol)                              *)
(***************************************************************************)
\* integer.rs: sign
sign(i) ==
    IF i # <<>> /\ i[1] = "-" THEN Ok(Tail(i), -1)
    ELSE IF i # <<>> /\ i[1] = "+" THEN Ok(Tail(i), 1)
    ELSE Err(NomError("Char", i))

\* integer.rs: parse_digits = from_utf8, then map_res(digit1, str::parse::<i64>)
parse_digits(i) ==
    LET parse(n, mag) ==
            IF ~IsUtf8(i) \/ n = 0 \/ MagLess(I64MaxMag, mag)
            THEN Err(NomError("Digit", i))
            ELSE Ok(Drop(i, n), IntVal(FALSE, mag))
        digit1(n) == parse(n, StripZeros(Take(i, n)))
    IN  digit1(PrefixLen(i, DigitSet))

integer(i) == delimited_line(":", i)
big_number(i) == delimited_line("(", i)
simple_string(i) == delimited_line("+", i)
simple_error(i) == delimited_line("-", i)
boolean(i) == delimited_line("#", i)

null(i) == tag(<<"_">> \o CRLF, i)
null_bulk_string(i) == tag(<<"$", "-", "1">> \o CRLF, i)
null_array(i) == tag(<<"*", "-", "1">> \o CRLF, i)

\* terminated(take(n), terminator)
take_line(n, i) ==
    LET second(d, t) == IF t.st # "ok" THEN t ELSE Ok(t.rest, d.val)
        first(d) == IF d.st # "ok" THEN d ELSE second(d, terminator(d.rest))
    IN  first(take(n, i))

\* a declared length as usize: a length no buffer of the model can hold is
\* kept as one more than the buffer's length
LenOf(v, i) == IF Len(v.mag) > 6 THEN Len(i) + 1 ELSE MagNat(v.mag)

\* the shape shared by bulk_string and bulk_error
length_prefixed(c, i) ==
    LET data(h, len) ==
            IF len.st # "ok" THEN len
            ELSE IF MagLess(BulkMaxMag, len.val.mag) THEN Err(NomError("TooLarge", h.rest))
            ELSE take_line(LenOf(len.val, h.rest), h.rest)
        length(h) == IF h.st # "ok" THEN h ELSE data(h, parse_digits(h.val))
    IN  length(delimited_line(c, i))

bulk_string(i) == length_prefixed("$", i)
bulk_error(i) == length_prefixed("!", i)

\* verbatim_string.rs: the payload length is len as usize - 4usize, which
\* overflows for len < 4: a panic where the build checks overflow, and a
\* wrapped length that no buffer holds where it does not
verbatim_string(i) ==
    LET data(n, col) ==
            IF col.st # "ok" THEN col
            ELSE IF n < 4
                 THEN IF overflow_checks
                      THEN Panic("attempt to subtract with overflow")
                      ELSE Err(NomError("Eof", col.rest))
            ELSE take_line(n - 4, col.rest)
        colon(n, enc) == IF enc.st # "ok" THEN enc ELSE data(n, char(":", enc.rest))
        encoding(h, len) ==
            IF len.st # "ok" THEN len
            ELSE IF MagLess(BulkMaxMag, len.val.mag) THEN Err(NomError("TooLarge", h.rest))
            ELSE colon(LenOf(len.val, i), take(3, h.rest))
        length(h) == IF h.st # "ok" THEN h ELSE encoding(h, parse_digits(h.val))
    IN  length(delimited_line("=", i))

\* protocol/mod.rs: string = alt((simple_string, bulk_string, verbatim_string))
string(i) ==
    LET or(a, b) == IF a.st = "ok" THEN a ELSE b
    IN  or(simple_string(i), or(bulk_string(i), verbatim_string(i)))

\* the null the deserializer matches: any of the three null encodings
null_variant(i) ==
    LET or(a, b) == IF a.st = "ok" THEN a ELSE b
    IN  or(null(i), or(null_bulk_string(i), null_array(i)))

\* Integer::try_parse
Integer_try_parse(value) ==
    LET or(a, b) == IF a.st = "ok" THEN a ELSE b
        num(tok, s, d) ==
            IF d.st # "ok" THEN d
            ELSE IF Len(d.rest) # 0 THEN Panic("assert_eq!(j.len(), 0)")
            ELSE Ok(tok.rest, IntVal(s.st = "ok" /\ s.val = -1, d.val.mag))
        digits(tok, s) == num(tok, s, parse_digits(IF s.st = "ok" THEN s.rest ELSE tok.val))
        signed(tok) == IF tok.st # "ok" THEN tok ELSE digits(tok, sign(tok.val))
    IN  signed(or(integer(value), or(big_number(value), string(value))))

\* Boolean::try_parse
Boolean_try_parse(value) ==
    LET bool(b) ==
            IF b.st # "ok" THEN b
            ELSE IF b.val = <<"f">> THEN Ok(b.rest, FALSE)
            ELSE IF b.val = <<"t">> THEN Ok(b.rest, TRUE)
            ELSE Panic("unreachable!: booleans can only be f or t")
    IN  bool(boolean(value))

\* the try_parse of the string-like tokens: from_utf8(data).unwrap()
text_try_parse(r) ==
    IF r.st # "ok" THEN r
    ELSE IF ~IsUtf8(r.val) THEN Panic("from_utf8(..).unwrap()")
    ELSE r

BulkString_try_parse(value) == text_try_parse(bulk_string(value))
BulkError_try_parse(value) == text_try_parse(bulk_error(value))
SimpleString_try_parse(value) == text_try_parse(simple_string(value))
SimpleError_try_parse(value) == text_try_parse(simple_error(value))
VerbatimString_try_parse(value) == text_try_parse(verbatim_string(value))

\* the try_parse of the literal tokens
\* big_number.rs: BigInt::from_str_radix takes a sign of its own
BigNumber_try_parse(value) ==
    LET radix(b, s, j, t, d) ==
            IF ~IsUtf8(j) THEN Panic("from_utf8(j).unwrap()")
            ELSE IF d = <<>> \/ \E k \in DOMAIN d : ~IsDigit(d[k])
            THEN Panic("BigInt::from_str_radix(num, 10).unwrap()")
            ELSE Ok(b.rest, IntVal((s.st = "ok" /\ s.val = -1) # (t.st = "ok" /\ t.val = -1),
                                   StripZeros(d)))
        inner(b, s, j, t) == radix(b, s, j, t, IF t.st = "ok" THEN t.rest ELSE j)
        outer(b, s, j) == inner(b, s, j, sign(j))
        signed(b, s) == outer(b, s, IF s.st = "ok" THEN s.rest ELSE b.val)
        num(b) == IF b.st # "ok" THEN b ELSE signed(b, sign(b.val))
    IN  num(big_number(value))

unit_try_parse(r) == IF r.st # "ok" THEN r ELSE Ok(r.rest, "unit")

Null_try_parse(value) == unit_try_parse(null(value))
NullBulkString_try_parse(value) == unit_try_parse(null_bulk_string(value))
NullArray_try_parse(value) == unit_try_parse(null_array(value))
Terminator_try_parse(value) == unit_try_parse(terminator(value))

(***************************************************************************)
(* Target shapes: what T::deserialize asks of the Deserializer             *)
(***************************************************************************)
TString == [k |-> "string"]
TI64 == [k |-> "i64"]
TU32 == [k |-> "u32"]
TInt(w) == [k |-> "int", w |-> w]
TUnit == [k |-> "unit"]
SeqOf(T) == [k |-> "seq", of |-> T]
TBytes == [k |-> "bytes"]
MapOf(K, V) == [k |-> "map", key |-> K, val |-> V]
TByteBuf == [k |-> "byte_buf"]
UnitStruct(name) == [k |-> "unit_struct", name |-> name]
OptionOf(T) == [k |-> "option", of |-> T]
Field(T) == [ty |-> T, default |-> FALSE]
FieldDefault(T) == [ty |-> T, default |-> TRUE]
Struct(fields) == [k |-> "struct", fields |-> fields]
UnitVariant(name) == [name |-> name, ty |-> <<>>]
NewtypeVariant(name, T) == [name |-> name, ty |-> <<T>>]
EnumOf(variants) == [k |-> "enum", variants |-> variants]
Untagged(variants) == [k |-> "untagged", variants |-> variants]
OptionsOf(slots) == [k |-> "options", slots |-> slots]
SetOptionsOf(slots) == [k |-> "set_options", slots |-> slots]

\* Option<T>: None is the empty sequence, Some(v) the sequence of v alone
None == <<>>
Some(v) == <<v>>

(***************************************************************************)
(* The Deserializer (serde_resp/deserializer.rs).  The rest of a result is *)
(* self.input when the method returns, for Ok and for Err alike.           *)
(***************************************************************************)
\* a token decoder's failure leaves self.input as it was
Fail(r, i) == IF r.st = "err" THEN [r EXCEPT !.rest = i] ELSE r
ErrAt(e, rest) == [st |-> "err", rest |-> rest, val |-> NoVal, err |-> e]

deserialize_i64(i) == Fail(Integer_try_parse(i), i)

\* a < b on i64 values
IntLess(a, b) ==
    IF a.neg # b.neg THEN a.neg
    ELSE IF a.neg THEN MagLess(b.mag, a.mag) ELSE MagLess(a.mag, b.mag)

\* the bounds of the narrowing methods deserialize_i8 .. deserialize_u64:
\* lo and hi are W::MIN as i64 and W::MAX as i64, which the value is
\* compared with; min and max are W::MIN as i128 and W::MAX as i128, which
\* the error reports.  u64::MAX as i64 wraps to -1.
Widths ==
    [i8  |-> [lo |-> IntVal(TRUE, <<"1", "2", "8">>), hi |-> IntVal(FALSE, <<"1", "2", "7">>),
              min |-> IntVal(TRUE, <<"1", "2", "8">>), max |-> IntVal(FALSE, <<"1", "2", "7">>)],
     i16 |-> [lo |-> IntVal(TRUE, <<"3", "2", "7", "6", "8">>), hi |-> IntVal(FALSE, <<"3", "2", "7", "6", "7">>),
              min |-> IntVal(TRUE, <<"3", "2", "7", "6", "8">>), max |-> IntVal(FALSE, <<"3", "2", "7", "6", "7">>)],
     i32 |-> [lo |-> IntVal(TRUE, <<"2", "1", "4", "7", "4", "8", "3", "6", "4", "8">>), hi |-> IntVal(FALSE, <<"2", "1", "4", "7", "4", "8", "3", "6", "4", "7">>),
              min |-> IntVal(TRUE, <<"2", "1", "4", "7", "4", "8", "3", "6", "4", "8">>), max |-> IntVal(FALSE, <<"2", "1", "4", "7", "4", "8", "3", "6", "4", "7">>)],
     u8  |-> [lo |-> IntVal(FALSE, <<"0">>), hi |-> IntVal(FALSE, <<"2", "5", "5">>),
              min |-> IntVal(FALSE, <<"0">>), max |-> IntVal(FALSE, <<"2", "5", "5">>)],
     u16 |-> [lo |-> IntVal(FALSE, <<"0">>), hi |-> IntVal(FALSE, <<"6", "5", "5", "3", "5">>),
              min |-> IntVal(FALSE, <<"0">>), max |-> IntVal(FALSE, <<"6", "5", "5", "3", "5">>)],
     u32 |-> [lo |-> IntVal(FALSE, <<"0">>), hi |-> IntVal(FALSE, U32MaxMag),
              min |-> IntVal(FALSE, <<"0">>), max |-> IntVal(FALSE, U32MaxMag)],
     u64 |-> [lo |-> IntVal(FALSE, <<"0">>), hi |-> IntVal(TRUE, <<"1">>),
              min |-> IntVal(FALSE, <<"0">>), max |-> IntVal(FALSE, <<"1", "8", "4", "4", "6", "7", "4", "4", "0", "7", "3", "7", "0", "9", "5", "5", "1", "6", "1", "5">>)]]

IntegerOutOfRange(min, max, found) ==
    [kind |-> "IntegerOutOfRange", min |-> min, max |-> max, found |-> found]

\* deserialize_i8 .. deserialize_u64: Integer::try_parse, self.input = i,
\* then the range check of the width
deserialize_int(w, i) ==
    LET range(r) ==
            IF r.st # "ok" THEN Fail(r, i)
            ELSE IF IntLess(Widths[w].hi, r.val) \/ IntLess(r.val, Widths[w].lo)
            THEN ErrAt(IntegerOutOfRange(Widths[w].min, Widths[w].max, r.val), r.rest)
            ELSE r
    IN  range(Integer_try_parse(i))

deserialize_u32(i) == deserialize_int("u32", i)

deserialize_str(i) ==
    LET visit(r) ==
            IF r.st # "ok" THEN Fail(r, i)
            ELSE IF ~IsUtf8(r.val) THEN ErrAt([kind |-> "StrParsingError"], r.rest)
            ELSE r
    IN  visit(string(i))

\* deserialize_unit: a null, and nothing else
\* deserialize_unit without self.input = i
unit_without_advancing(i) ==
    LET visit(n) == IF n.st # "ok" THEN Fail(n, i) ELSE Ok(i, "unit")
    IN  visit(null_variant(i))

deserialize_unit(i) ==
    LET visit(n) == IF n.st # "ok" THEN Fail(n, i) ELSE Ok(n.rest, "unit")
    IN  visit(null_variant(i))

\* deserialize_bytes: the visitor is handed self.input, the whole remaining
\* input, and the cursor stays where it is
deserialize_bytes(i) == Ok(i, i)

\* deserialize_byte_buf: the same bytes as an owned buffer
deserialize_byte_buf(i) == Ok(i, i)

deserialize_unit_struct(name, i) ==
    LET visit(r) ==
            IF r.st # "ok" THEN Fail(r, i)
            ELSE IF ~IsUtf8(r.val) THEN ErrAt([kind |-> "StrParsingError"], r.rest)
            ELSE IF to_lowercase(r.val) = to_lowercase(name) THEN Ok(r.rest, name)
            ELSE ErrAt([kind |-> "UnitStructNameMismatch", expected |-> name,
                        found |-> r.val], r.rest)
    IN  visit(string(i))

\* str::parse::<usize> of a sequence header's count
IsUsize(s) ==
    LET digits(d) == d # <<>> /\ \A k \in DOMAIN d : IsDigit(d[k])
    IN  digits(IF s # <<>> /\ s[1] = "+" THEN Tail(s) ELSE s)
UsizeOf(s, i) ==
    LET count(d) == IF Len(d) > 6 THEN Len(i) + 1 ELSE MagNat(d)
    IN  count(StripZeros(IF s[1] = "+" THEN Tail(s) ELSE s))

\* deserialize_seq up to the Slice it hands to the visitor: val is
\* num_items, None without an Array, Set or Push header
seq_header(i) ==
    LET or(a, b) == IF a.st = "ok" THEN a ELSE b
        slice(h) ==
            IF h.st # "ok" THEN Ok(i, None)
            ELSE IF ~IsUtf8(h.val) THEN Panic("from_utf8(len).unwrap()")
            ELSE IF ~IsUsize(h.val) THEN ErrAt([kind |-> "ParseIntError"], i)
            ELSE Ok(h.rest, Some(UsizeOf(h.val, i)))
    IN  slice(or(delimited_line("*", i), or(delimited_line("~", i), delimited_line(">", i))))

\* Slice::next_element_seed before the seed runs: whether the Slice is
\* exhausted, and num_items afterwards
SliceDone(n) == n # None /\ n[1] = 0
\* next_element_seed without self.num_items = Some(num_items - 1)
slice_without_countdown(n) == n

SliceStep(n) == IF n = None THEN None ELSE Some(n[1] - 1)

\* #[derive(Default)] of a struct of Options, and Option's own default
DefaultOf(T) ==
    IF T.k \in {"options", "set_options"} THEN [k \in DOMAIN T.slots |-> None]
    ELSE None

\* the bytes the aggregate error of an untagged enum is built from
NoFittingOption(errors) == [kind |-> "Custom", msg |-> "No fitting option found", errors |-> errors]
DuplicateField(slot) == [kind |-> "Custom", msg |-> "duplicate field", field |-> slot]
InvalidLength(n) == [kind |-> "Custom", msg |-> "invalid length", len |-> n]
UnknownVariant(name) == [kind |-> "Custom", msg |-> "unknown variant", found |-> name]

\* the variant of a derived enum whose name is the identifier, 0 if none
VariantIndex(variants, name) ==
    IF \E k \in DOMAIN variants : variants[k].name = name
    THEN CHOOSE k \in DOMAIN variants : variants[k].name = name
    ELSE 0

\* DeserializeUntagged hands the deserializer's remaining bytes to the trials
get_underlying_buffer(i) == i

RECURSIVE Deserialize(_, _)
RECURSIVE visit_seq_struct(_, _, _, _, _)
RECURSIVE try_untagged_enum_variants(_, _, _, _)
RECURSIVE options_visit_seq(_, _, _, _)
RECURSIVE set_options_visit_seq(_, _, _, _, _)

\* parser::from_slice: a fresh Deserializer over the bytes; what is left
\* over after the value is not looked at
from_slice(T, s) == Deserialize(T, s)

\* the trials run from the last declared variant to the first
RECURSIVE try_variants_last_first(_, _, _, _)
try_variants_last_first(variants, k, v, errors) ==
    IF k > Len(variants) THEN ErrAt(NoFittingOption(errors), v)
    ELSE LET trial(n, r) ==
                 IF r.st = "ok" THEN Ok(r.rest, [variant |-> n, inner |-> r.val])
                 ELSE IF r.st = "panic" THEN r
                 ELSE try_variants_last_first(variants, k + 1, v, Append(errors, r.err))
             pick(n) == trial(n, from_slice(variants[n].ty[1], v))
         IN  pick(Len(variants) + 1 - k)

\* impl_try_untagged_enum_variants: the trials, in declaration order
try_untagged_enum_variants(variants, k, v, errors) ==
    IF k > Len(variants) THEN ErrAt(NoFittingOption(errors), v)
    ELSE LET trial(r) ==
                 IF r.st = "ok" THEN Ok(r.rest, [variant |-> k, inner |-> r.val])
                 ELSE IF r.st = "panic" THEN r
                 ELSE try_untagged_enum_variants(variants, k + 1, v, Append(errors, r.err))
         IN  trial(from_slice(variants[k].ty[1], v))

\* the winner is not decoded again on the deserializer itself
untagged_without_reapplication(T, i) ==
    LET trials(t) ==
            IF t.st = "err" THEN ErrAt(t.err, i)
            ELSE IF t.st = "panic" THEN t
            ELSE Ok(i, t.val)
    IN  trials(try_untagged_enum_variants(T.variants, 1, get_underlying_buffer(i), <<>>))

\* DeserializeUntagged: the trials on the snapshot, then the winner once
\* more on the deserializer itself
deserialize_untagged(T, i) ==
    LET reapply(t, again) ==
            IF again.st # "ok" THEN Panic("called Result::unwrap() on an Err value")
            ELSE Ok(again.rest, t.val)
        trials(t) ==
            IF t.st = "err" THEN ErrAt(t.err, i)
            ELSE IF t.st = "panic" THEN t
            ELSE reapply(t, Deserialize(T.variants[t.val.variant].ty[1], i))
    IN  trials(try_untagged_enum_variants(T.variants, 1, get_underlying_buffer(i), <<>>))

\* serde's derived visit_seq of a struct: one next_element per field
visit_seq_struct(fields, k, i, n, acc) ==
    IF k > Len(fields) THEN Ok(i, acc)
    ELSE IF SliceDone(n)
    THEN IF fields[k].default
         THEN visit_seq_struct(fields, k + 1, i, n, Append(acc, DefaultOf(fields[k].ty)))
         ELSE ErrAt(InvalidLength(k - 1), i)
    ELSE LET next_element(r) ==
                 IF r.st # "ok" THEN r
                 ELSE visit_seq_struct(fields, k + 1, r.rest, SliceStep(n), Append(acc, r.val))
         IN  next_element(Deserialize(fields[k].ty, i))

\* serde's visitor of Vec<T>: next_element until the Slice reports the end
RECURSIVE visit_seq_vec(_, _, _, _)
visit_seq_vec(T, i, n, acc) ==
    IF SliceDone(n) THEN Ok(i, acc)
    ELSE LET next_element(r) ==
                 IF r.st # "ok" THEN r
                 ELSE visit_seq_vec(T, r.rest, SliceStep(n), Append(acc, r.val))
         IN  next_element(Deserialize(T, i))

\* deserialize_seq for a Vec<T>
deserialize_seq(T, i) ==
    LET visit(h) == IF h.st # "ok" THEN h ELSE visit_seq_vec(T.of, h.rest, h.val, <<>>)
    IN  visit(seq_header(i))

deserialize_struct(T, i) ==
    LET visit(h) == IF h.st # "ok" THEN h ELSE visit_seq_struct(T.fields, 1, h.rest, h.val, <<>>)
    IN  visit(seq_header(i))

\* serde's derived visit_enum over Enum: variant_seed, then the payload
deserialize_enum(T, i) ==
    LET newtype_variant(k, arg) ==
            IF arg.st # "ok" THEN arg
            ELSE Ok(arg.rest, [variant |-> T.variants[k].name, arg |-> Some(arg.val)])
        variant(id, k) ==
            IF k = 0 THEN ErrAt(UnknownVariant(id.val), id.rest)
            ELSE IF ~IsUtf8(id.rest) THEN Panic("dbg!(from_utf8(self.de.input).unwrap())")
            ELSE IF T.variants[k].ty = <<>>
            THEN Ok(id.rest, [variant |-> T.variants[k].name, arg |-> None])
            ELSE newtype_variant(k, Deserialize(T.variants[k].ty[1], id.rest))
        variant_seed(id) ==
            IF id.st # "ok" THEN id ELSE variant(id, VariantIndex(T.variants, id.val))
    IN  variant_seed(deserialize_str(i))

deserialize_option(T, i) ==
    LET visit_some(r) == IF r.st # "ok" THEN r ELSE Ok(r.rest, Some(r.val))
        peek(s) ==
            IF s.st = "panic" THEN s
            ELSE IF s.st # "ok" THEN Ok(i, None)
            ELSE visit_some(Deserialize(T.of, i))
        visit(n) == IF n.st = "ok" THEN Ok(n.rest, None) ELSE peek(string(i))
    IN  visit(null_variant(i))

\* the OptionsEnum of an Options struct: one untagged variant per slot
OptionsEnum(T) == Untagged(T.slots)

\* derive(Options): OptionsVisitor::visit_seq, the while-let loop
options_visit_seq(T, i, n, options) ==
    IF SliceDone(n) THEN Ok(i, options)
    ELSE LET next_element(r) ==
                 IF r.st = "panic" THEN r
                 ELSE IF r.st = "err" THEN Ok(r.rest, options)
                 ELSE IF options[r.val.variant] # None
                 THEN ErrAt(DuplicateField(T.slots[r.val.variant].name), r.rest)
                 ELSE options_visit_seq(T, r.rest, SliceStep(n),
                                        [options EXCEPT ![r.val.variant] = Some(r.val.inner)])
         IN  next_element(deserialize_untagged(OptionsEnum(T), i))

\* set.rs: the rounds of the hand-written OptionsVisitor::visit_seq
SetOptionsRounds == 3

\* the hand-written loop with one round fewer
RECURSIVE set_options_one_round_short(_, _, _, _, _)
set_options_one_round_short(T, round, i, n, options) ==
    IF round > SetOptionsRounds - 1 THEN Ok(i, options)
    ELSE IF SliceDone(n) THEN set_options_one_round_short(T, round + 1, i, n, options)
    ELSE LET next_element(r) ==
                 IF r.st = "panic" THEN r
                 ELSE set_options_one_round_short(T, round + 1, r.rest, SliceStep(n),
                          IF r.st = "err" THEN options
                          ELSE [options EXCEPT ![r.val.variant] = Some(r.val.inner)])
         IN  next_element(deserialize_untagged(OptionsEnum(T), i))

\* set.rs: the hand-written OptionsVisitor::visit_seq, for _ in 0..3
set_options_visit_seq(T, round, i, n, options) ==
    IF round > SetOptionsRounds THEN Ok(i, options)
    ELSE IF SliceDone(n) THEN set_options_visit_seq(T, round + 1, i, n, options)
    ELSE LET next_element(r) ==
                 IF r.st = "panic" THEN r
                 ELSE set_options_visit_seq(T, round + 1, r.rest, SliceStep(n),
                          IF r.st = "err" THEN options
                          ELSE [options EXCEPT ![r.val.variant] = Some(r.val.inner)])
         IN  next_element(deserialize_untagged(OptionsEnum(T), i))

\* Options::deserialize: deserialize_seq with the OptionsVisitor
deserialize_options(T, i) ==
    LET visit(h) ==
            IF h.st # "ok" THEN h
            ELSE IF T.k = "options" THEN options_visit_seq(T, h.rest, h.val, DefaultOf(T))
            ELSE set_options_visit_seq(T, 1, h.rest, h.val, DefaultOf(T))
    IN  visit(seq_header(i))

\* HashMap::insert: the entry of a key replaces an earlier one
HashMap_insert(map, key, value) == {e \in map : e[1] # key} \cup {<<key, value>>}

\* MapSlice::next_key_seed before the seed runs: whether the MapSlice is
\* exhausted; next_value_seed: num_entries afterwards
MapDone(n) == n = 0
\* next_value_seed without self.num_entries -= 1
map_without_countdown(n) == n
MapStep(n) == n - 1

\* serde's visitor of HashMap<K, V>: next_entry, that is next_key and then
\* next_value, until the MapSlice reports the end
RECURSIVE visit_map(_, _, _, _)
visit_map(T, i, n, acc) ==
    IF MapDone(n) THEN Ok(i, acc)
    ELSE LET next_value(k, v) ==
                 IF v.st # "ok" THEN v
                 ELSE visit_map(T, v.rest, MapStep(n), HashMap_insert(acc, k.val, v.val))
             next_key(k) == IF k.st # "ok" THEN k ELSE next_value(k, Deserialize(T.val, k.rest))
         IN  next_key(Deserialize(T.key, i))

\* deserialize_map: the % header, its count, then the MapSlice
deserialize_map(T, i) ==
    LET visit(h, len) ==
            IF len.st # "ok" THEN Fail(len, i)
            ELSE visit_map(T, h.rest, LenOf(len.val, h.rest), {})
        header(h) == IF h.st # "ok" THEN Fail(h, i) ELSE visit(h, parse_digits(h.val))
    IN  header(delimited_line("%", i))

\* T::deserialize(&mut Deserializer { input: i })
Deserialize(T, i) ==
    CASE T.k = "string" -> deserialize_str(i)
      [] T.k = "i64" -> deserialize_i64(i)
      [] T.k = "u32" -> deserialize_u32(i)
      [] T.k = "int" -> deserialize_int(T.w, i)
      [] T.k = "unit" -> deserialize_unit(i)
      [] T.k = "bytes" -> deserialize_bytes(i)
      [] T.k = "map" -> deserialize_map(T, i)
      [] T.k = "byte_buf" -> deserialize_byte_buf(i)
      [] T.k = "seq" -> deserialize_seq(T, i)
      [] T.k = "unit_struct" -> deserialize_unit_struct(T.name, i)
      [] T.k = "option" -> deserialize_option(T, i)
      [] T.k = "struct" -> deserialize_struct(T, i)
      [] T.k = "enum" -> deserialize_enum(T, i)
      [] T.k = "untagged" -> deserialize_untagged(T, i)
      [] T.k \in {"options", "set_options"} -> deserialize_options(T, i)

(***************************************************************************)
(* The command shapes (parser/commands)                                    *)
(***************************************************************************)
\* set.rs
SET == UnitStruct(<<"S", "E", "T">>)
GET == UnitStruct(<<"G", "E", "T">>)
KEEPTTL == UnitStruct(<<"K", "E", "E", "P", "T", "T", "L">>)
Existence == EnumOf(<<UnitVariant(<<"N", "X">>), UnitVariant(<<"X", "X">>)>>)
Expiry ==
    EnumOf(<<NewtypeVariant(<<"E", "X">>, TU32), NewtypeVariant(<<"P", "X">>, TU32),
             NewtypeVariant(<<"E", "X", "A", "T">>, TU32), UnitVariant(<<"K", "E", "E", "P", "T", "T", "L">>)>>)
SetOptions ==
    SetOptionsOf(<<NewtypeVariant("expiry", Expiry),
                   NewtypeVariant("existence", Existence),
                   NewtypeVariant("get", GET)>>)
Set == Struct(<<Field(SET), Field(TString), Field(TString), FieldDefault(SetOptions)>>)

\* get.rs
Get == Struct(<<Field(GET), Field(TString)>>)

\* hello.rs
AuthUsernamePassword == Struct(<<Field(TString), Field(TString)>>)
SetClientName == Struct(<<Field(TString)>>)
ClientHandshakeOptions ==
    Struct(<<Field(TI64), Field(OptionOf(AuthUsernamePassword)),
             Field(OptionOf(SetClientName))>>)
Hello == Struct(<<Field(OptionOf(ClientHandshakeOptions))>>)

\* auth.rs
AUTH == UnitStruct(<<"A", "U", "T", "H">>)
Auth == Struct(<<Field(AUTH), FieldDefault(OptionOf(TString)), Field(TString)>>)

\* command.rs
COMMAND == UnitStruct(<<"C", "O", "M", "M", "A", "N", "D">>)
DOCS == UnitStruct(<<"D", "O", "C", "S">>)
CommandName == Struct(<<Field(TString)>>)
CommandOptions == OptionsOf(<<NewtypeVariant("command_name", CommandName)>>)
Command ==
    Struct(<<Field(COMMAND), FieldDefault(OptionOf(DOCS)), FieldDefault(CommandOptions)>>)

\* commands/mod.rs
Commands ==
    Untagged(<<NewtypeVariant("Get", Get), NewtypeVariant("Set", Set),
               NewtypeVariant("Hello", Hello), NewtypeVariant("Command", Command)>>)

\* set.rs, test_options: the same bytes decode as KEEPTTL and as Expiry
KeepOrExpiry == Untagged(<<NewtypeVariant("KEEPTTL", KEEPTTL), NewtypeVariant("Expiry", Expiry)>>)
ExpiryOrKeep == Untagged(<<NewtypeVariant("Expiry", Expiry), NewtypeVariant("KEEPTTL", KEEPTTL)>>)

(***************************************************************************)
(* Wire encodings used to put the input buffers together                   *)
(***************************************************************************)
\* the decimal digits of a count below 100
Dec(n) == IF n < 10 THEN <<Digits[n + 1]>> ELSE <<Digits[(n \div 10) + 1], Digits[(n % 10) + 1]>>

Bulk(s) == <<"$">> \o Dec(Len(s)) \o CRLF \o s \o CRLF
Line(c, s) == <<c>> \o s \o CRLF
Arr(n) == Line("*", Dec(n))

RECURSIVE Concat(_)
Concat(ss) == IF ss = <<>> THEN <<>> ELSE Head(ss) \o Concat(Tail(ss))

\* the sequences over S of length at most n
SeqsUpTo(S, n) == UNION {[1..m -> S] : m \in 0..n}

(***************************************************************************)
(* Bounds                                                                  *)
(***************************************************************************)
\* modifiers after the key and value of a SET frame
MaxMods == 3
\* tokens after COMMAND [DOCS], and tokens of a bare token stream
MaxToks == 2
\* arguments after the first element of a frame of any other name
MaxArgs == 2

(***************************************************************************)
(* SET modifiers as written on the wire: the tokens, the slot they belong  *)
(* to (expiry 1, existence 2, get 3) and the value they stand for          *)
(***************************************************************************)
Num(d) == IntVal(FALSE, d)
Modifiers == <<
    [toks |-> <<Bulk(<<"N", "X">>)>>, slot |-> 2, val |-> [variant |-> <<"N", "X">>, arg |-> None]],
    [toks |-> <<Bulk(<<"X", "X">>)>>, slot |-> 2, val |-> [variant |-> <<"X", "X">>, arg |-> None]],
    [toks |-> <<Bulk(<<"G", "E", "T">>)>>, slot |-> 3, val |-> <<"G", "E", "T">>],
    [toks |-> <<Bulk(<<"E", "X">>), Bulk(<<"1", "0">>)>>, slot |-> 1,
     val |-> [variant |-> <<"E", "X">>, arg |-> Some(Num(<<"1", "0">>))]],
    [toks |-> <<Bulk(<<"P", "X">>), Line(":", <<"2", "0">>)>>, slot |-> 1,
     val |-> [variant |-> <<"P", "X">>, arg |-> Some(Num(<<"2", "0">>))]],
    [toks |-> <<Bulk(<<"E", "X", "A", "T">>), Bulk(U32MaxMag)>>, slot |-> 1,
     val |-> [variant |-> <<"E", "X", "A", "T">>, arg |-> Some(Num(U32MaxMag))]],
    [toks |-> <<Bulk(<<"K", "E", "E", "P", "T", "T", "L">>)>>, slot |-> 1, val |-> [variant |-> <<"K", "E", "E", "P", "T", "T", "L">>, arg |-> None]] >>

ModBytes(mods) == Concat([k \in DOMAIN mods |-> Concat(Modifiers[mods[k]].toks)])
RECURSIVE ModCount(_)
ModCount(mods) == IF mods = <<>> THEN 0 ELSE Len(Modifiers[Head(mods)].toks) + ModCount(Tail(mods))

\* what may follow a frame in the buffer: the bytes of the next frame
Tails == << <<>>, Bulk(<<"G", "E", "T">>), Arr(2) \o Bulk(<<"G", "E", "T">>) \o Bulk(<<"k">>) >>

Key == <<"k">>
Value == <<"v">>

(***************************************************************************)
(* The tokens of bare token streams and of COMMAND frames: the bytes, and  *)
(* the text when the token is a string on the wire                         *)
(***************************************************************************)
Toks == <<
    [bytes |-> Bulk(<<"a">>), str |-> Some(<<"a">>)],
    [bytes |-> Line("+", <<"b">>), str |-> Some(<<"b">>)],
    [bytes |-> Line(":", <<"3">>), str |-> None],
    [bytes |-> Line("_", <<>>), str |-> None],
    [bytes |-> Bulk(<<"K", "E", "E", "P", "T", "T", "L">>), str |-> Some(<<"K", "E", "E", "P", "T", "T", "L">>)],
    [bytes |-> Bulk(<<"k", "e", "e", "p", "t", "t", "l">>), str |-> Some(<<"k", "e", "e", "p", "t", "t", "l">>)],
    [bytes |-> Bulk(<<"N", "X">>), str |-> Some(<<"N", "X">>)],
    [bytes |-> Bulk(<<"G", "E", "T">>), str |-> Some(<<"G", "E", "T">>)],
    [bytes |-> Bulk(<<"E", "X">>), str |-> Some(<<"E", "X">>)],
    [bytes |-> Bulk(<<"7">>), str |-> Some(<<"7">>)],
    [bytes |-> Bulk(<<"3", "x">>), str |-> Some(<<"3", "x">>)],
    [bytes |-> Line("#", <<"t">>), str |-> None],
    [bytes |-> Line("=", <<"3">>) \o <<"t", "x", "t", ":">> \o CRLF, str |-> None],
    [bytes |-> Line("*", <<BadByte>>), str |-> None] >>

TokBytes(toks) == Concat([k \in DOMAIN toks |-> Toks[toks[k]].bytes])

\* the first element of a frame decoded as Commands
Firsts == <<
    [bytes |-> Bulk(<<"G", "E", "T">>), str |-> Some(<<"G", "E", "T">>)],
    [bytes |-> Bulk(<<"g", "e", "t">>), str |-> Some(<<"g", "e", "t">>)],
    [bytes |-> Bulk(<<"S", "E", "T">>), str |-> Some(<<"S", "E", "T">>)],
    [bytes |-> Bulk(<<"H", "E", "L", "L", "O">>), str |-> Some(<<"H", "E", "L", "L", "O">>)],
    [bytes |-> Bulk(<<"C", "O", "M", "M", "A", "N", "D">>), str |-> Some(<<"C", "O", "M", "M", "A", "N", "D">>)],
    [bytes |-> Bulk(<<"F", "O", "O">>), str |-> Some(<<"F", "O", "O">>)],
    [bytes |-> Bulk(<<"3">>), str |-> Some(<<"3">>)],
    [bytes |-> Line("+", <<"3">>), str |-> Some(<<"3">>)],
    [bytes |-> Line(":", <<"3">>), str |-> None],
    [bytes |-> Line("_", <<>>), str |-> None],
    [bytes |-> Line("#", <<"t">>), str |-> None] >>

\* the k-th argument after the first element
Arg(k) == IF k = 1 THEN Bulk(Key) ELSE Bulk(Value)

(***************************************************************************)
(* Wire integers, sequences of strings and marker names                    *)
(***************************************************************************)
\* elements after a sequence header, and the count a header declares
MaxItems == 3

\* the magnitudes of the wire integers: around the bounds of every width
Mags == << <<"0">>, <<"5">>, <<"1", "2", "7">>, <<"1", "2", "8">>, <<"1", "2", "9">>, <<"2", "5", "5">>, <<"2", "5", "6">>, <<"3", "2", "7", "6", "7">>, <<"3", "2", "7", "6", "8">>, <<"3", "2", "7", "6", "9">>,
           <<"6", "5", "5", "3", "5">>, <<"6", "5", "5", "3", "6">>, <<"2", "1", "4", "7", "4", "8", "3", "6", "4", "7">>, <<"2", "1", "4", "7", "4", "8", "3", "6", "4", "8">>, <<"2", "1", "4", "7", "4", "8", "3", "6", "4", "9">>,
           U32MaxMag, <<"4", "2", "9", "4", "9", "6", "7", "2", "9", "6">>, I64MaxMag, <<"9", "2", "2", "3", "3", "7", "2", "0", "3", "6", "8", "5", "4", "7", "7", "5", "8", "0", "8">> >>
Signs == << <<>>, <<"+">>, <<"-">> >>
IntScenarios ==
    {[kind |-> "int", sign |-> s, mag |-> m] : s \in DOMAIN Signs, m \in DOMAIN Mags}

\* the elements of a sequence of strings: the bytes and the text
Items == <<
    [bytes |-> Bulk(<<"a">>), val |-> <<"a">>],
    [bytes |-> Line("+", <<"b">>), val |-> <<"b">>],
    [bytes |-> Bulk(<<>>), val |-> <<>>] >>
\* the elements of a sequence of sequences of strings
InnerArrays == <<
    [bytes |-> Arr(0), val |-> <<>>],
    [bytes |-> Arr(1) \o Bulk(<<"a">>), val |-> << <<"a">> >>],
    [bytes |-> Line("~", Dec(2)) \o Line("+", <<"b">>) \o Bulk(<<"a">>), val |-> << <<"b">>, <<"a">> >>] >>
\* the header bytes of Array, Set and Push; head 0 is no header at all
SeqHeads == <<"*", "~", ">">>
SeqScenarios ==
    {[kind |-> k, head |-> h, n |-> n, items |-> it] :
        k \in {"seq", "nested"}, h \in DOMAIN SeqHeads, n \in 0..MaxItems,
        it \in SeqsUpTo(DOMAIN Items, MaxItems)}
    \cup {[kind |-> "seq", head |-> 0, n |-> 0, items |-> it] :
        it \in SeqsUpTo(DOMAIN Items, MaxItems)}
ItemsOf(s) == IF s.kind = "nested" THEN InnerArrays ELSE Items
ItemBytes(s, from) ==
    Concat([k \in 1..(Len(s.items) - from + 1) |-> ItemsOf(s)[s.items[from + k - 1]].bytes])

\* tokens offered to the marker GET: the bytes, and whether the token is a
\* string that spells GET in some letter case
MarkerToks == <<
    [bytes |-> Bulk(<<"G", "E", "T">>), same |-> TRUE],
    [bytes |-> Bulk(<<"g", "e", "t">>), same |-> TRUE],
    [bytes |-> Line("+", <<"G", "e", "t">>), same |-> TRUE],
    [bytes |-> Line("=", <<"7">>) \o <<"t", "x", "t", ":", "g", "E", "T">> \o CRLF, same |-> TRUE],
    [bytes |-> Bulk(<<"G", "E", "T", "S">>), same |-> FALSE],
    [bytes |-> Bulk(<<"G", "E">>), same |-> FALSE],
    [bytes |-> Line("+", <<"S", "E", "T">>), same |-> FALSE],
    [bytes |-> Bulk(<<>>), same |-> FALSE] >>
MarkerScenarios ==
    {[kind |-> "marker", tok |-> k, more |-> m] : k \in DOMAIN MarkerToks, m \in DOMAIN Tails}

\* AUTH frames: the command name, one or two arguments out of Items, and
\* what follows the frame
AuthScenarios ==
    {[kind |-> "auth", name |-> n, args |-> a, tail |-> t] :
        n \in {<<"A", "U", "T", "H">>, <<"a", "u", "t", "h">>},
        a \in [1..1 -> DOMAIN Items] \cup [1..2 -> DOMAIN Items], t \in DOMAIN Tails}

\* the most entries a Map header of the scenarios declares
MaxPairs == 2
\* the values after a Map header: the bytes, the decoded value, and whether
\* the value is a string (a key of HashMap<String, i64>) or an integer
MapToks == <<
    [bytes |-> Bulk(<<"a">>), val |-> <<"a">>, str |-> TRUE],
    [bytes |-> Line("+", <<"b">>), val |-> <<"b">>, str |-> TRUE],
    [bytes |-> Line(":", <<"1">>), val |-> IntVal(FALSE, <<"1">>), str |-> FALSE],
    [bytes |-> Line(":", <<"-", "5">>), val |-> IntVal(TRUE, <<"5">>), str |-> FALSE] >>
MapScenarios ==
    {[kind |-> "map", n |-> n, toks |-> t] :
        n \in 0..MaxPairs, t \in SeqsUpTo(DOMAIN MapToks, 2 * MaxPairs)}
MapTokBytes(s, from) ==
    Concat([k \in 1..(Len(s.toks) - from + 1) |-> MapToks[s.toks[from + k - 1]].bytes])

(***************************************************************************)
(* The input buffers                                                       *)
(***************************************************************************)
SetScenarios ==
    {[kind |-> "set", name |-> n, mods |-> m, tail |-> t] :
        n \in {<<"S", "E", "T">>, <<"s", "e", "t">>}, m \in SeqsUpTo(DOMAIN Modifiers, MaxMods), t \in DOMAIN Tails}
CommandScenarios ==
    {[kind |-> "command", docs |-> d, toks |-> s, tail |-> t] :
        d \in BOOLEAN, s \in SeqsUpTo(DOMAIN Toks, MaxToks), t \in DOMAIN Tails}
FrameScenarios ==
    {[kind |-> "frame", first |-> f, args |-> a] : f \in 0..Len(Firsts), a \in 0..MaxArgs}
StreamScenarios ==
    {[kind |-> "stream", toks |-> s] : s \in SeqsUpTo(DOMAIN Toks, MaxToks)}

\* the bytes of a frame, without what follows it
FrameOf(s) ==
    CASE s.kind = "set" ->
            Arr(3 + ModCount(s.mods)) \o Bulk(s.name) \o Bulk(Key) \o Bulk(Value)
                \o ModBytes(s.mods)
      [] s.kind = "command" ->
            Arr(1 + (IF s.docs THEN 1 ELSE 0) + Len(s.toks)) \o Bulk(<<"C", "O", "M", "M", "A", "N", "D">>)
                \o (IF s.docs THEN Bulk(<<"D", "O", "C", "S">>) ELSE <<>>) \o TokBytes(s.toks)
      [] s.kind = "frame" ->
            IF s.first = 0 THEN Arr(0)
            ELSE Arr(1 + s.args) \o Firsts[s.first].bytes \o Concat([k \in 1..s.args |-> Arg(k)])
      [] s.kind = "stream" -> TokBytes(s.toks)
      [] s.kind = "int" -> Line(":", Signs[s.sign] \o Mags[s.mag])
      [] s.kind \in {"seq", "nested"} ->
            (IF s.head = 0 THEN <<>> ELSE Line(SeqHeads[s.head], Dec(s.n))) \o ItemBytes(s, 1)
      [] s.kind = "marker" -> MarkerToks[s.tok].bytes
      [] s.kind = "map" -> Line("%", Dec(s.n)) \o MapTokBytes(s, 1)
      [] s.kind = "auth" ->
            Arr(1 + Len(s.args)) \o Bulk(s.name)
                \o Concat([k \in 1..Len(s.args) |-> Items[s.args[k]].bytes])

BufOf(s) ==
    FrameOf(s) \o (IF s.kind \in {"set", "command", "auth"} THEN Tails[s.tail]
                   ELSE IF s.kind = "marker" THEN Tails[s.more] ELSE <<>>)

(***************************************************************************)
(* The buffers handed to the token decoders: a type byte, a first line, a  *)
(* second line                                                             *)
(***************************************************************************)
Prefixes == << <<>>, <<":">>, <<"$">>, <<"+">>, <<"-">>, <<"#">>, <<"=">>, <<"_">>,
               <<"(">>, <<"!">>, <<"*">> >>
FirstLines == << <<>>, <<"1">>, <<"3">>, <<"5">>, <<"1", "2">>, <<"-", "1">>, <<"+", "3">>,
                 <<"1", "2", "a">>, <<"t">>, <<"f">>, <<"x">>, <<BadByte>>,
                 <<"5", "3", "6", "8", "7", "0", "9", "1", "3">>,
                 <<"5", "3", "6", "8", "7", "0", "9", "1", "2">>,
                 <<"9", "2", "2", "3", "3", "7", "2", "0", "3", "6", "8", "5",
                   "4", "7", "7", "5", "8", "0", "8">> >>
SecondLines == << <<>>, CRLF, <<"7">> \o CRLF, <<"a", "b", "c">> \o CRLF,
                  <<"3", "x", "y">> \o CRLF, <<"t", "x", "t", ":", "a">> \o CRLF,
                  <<"t", "x", "t", ":">> \o CRLF, <<BadByte>> \o CRLF, <<"a", "b">> >>

PrimScenarios ==
    {[kind |-> "prim", prefix |-> p, line |-> l, term |-> t, second |-> s] :
        p \in DOMAIN Prefixes, l \in DOMAIN FirstLines, t \in BOOLEAN, s \in DOMAIN SecondLines}

PrimBuf(s) ==
    Prefixes[s.prefix] \o FirstLines[s.line] \o (IF s.term THEN CRLF ELSE <<>>)
        \o SecondLines[s.second]

\* the token decoders by name
Decoders == {"integer", "bulk_string", "verbatim_string", "Integer", "Boolean", "BigNumber",
             "BulkString", "BulkError", "SimpleString", "SimpleError", "VerbatimString",
             "Null", "NullBulkString", "NullArray", "Terminator"}
Decode(d, i) ==
    CASE d = "integer" -> integer(i)
      [] d = "bulk_string" -> bulk_string(i)
      [] d = "verbatim_string" -> verbatim_string(i)
      [] d = "Integer" -> Integer_try_parse(i)
      [] d = "Boolean" -> Boolean_try_parse(i)
      [] d = "BigNumber" -> BigNumber_try_parse(i)
      [] d = "BulkString" -> BulkString_try_parse(i)
      [] d = "BulkError" -> BulkError_try_parse(i)
      [] d = "SimpleString" -> SimpleString_try_parse(i)
      [] d = "SimpleError" -> SimpleError_try_parse(i)
      [] d = "VerbatimString" -> VerbatimString_try_parse(i)
      [] d = "Null" -> Null_try_parse(i)
      [] d = "NullBulkString" -> NullBulkString_try_parse(i)
      [] d = "NullArray" -> NullArray_try_parse(i)
      [] d = "Terminator" -> Terminator_try_parse(i)

\* the token decoders the buffers of a kind are handed to
DecodersOf(kind) ==
    IF kind = "prim" THEN Decoders ELSE IF kind = "int" THEN {"Integer"} ELSE {}

\* the target shapes by name
SetOptionsEnum == OptionsEnum(SetOptions)
ShapeOf(t) ==
    CASE t = "Commands" -> Commands
      [] t = "Set" -> Set
      [] t = "Command" -> Command
      [] t = "Auth" -> Auth
      [] t = "SetOptionsEnum" -> SetOptionsEnum
      [] t = "KeepOrExpiry" -> KeepOrExpiry
      [] t = "ExpiryOrKeep" -> ExpiryOrKeep
      [] t = "SetOptions" -> SetOptions
      [] t = "CommandOptions" -> CommandOptions
      [] t = "OptionString" -> OptionOf(TString)
      [] t = "OptionI64" -> OptionOf(TI64)
      [] t = "Unit" -> TUnit
      [] t = "Bytes" -> TBytes
      [] t = "MapStringI64" -> MapOf(TString, TI64)
      [] t = "ByteBuf" -> TByteBuf
      [] t = "GET" -> GET
      [] t = "VecString" -> SeqOf(TString)
      [] t = "VecVecString" -> SeqOf(SeqOf(TString))
      [] t = "i64" -> TI64
      [] t \in DOMAIN Widths -> TInt(t)
TargetsOf(kind) ==
    CASE kind = "set" -> {"Commands", "Set"}
      [] kind = "command" -> {"Commands", "Command"}
      [] kind = "frame" -> {"Commands"}
      [] kind = "stream" -> {"SetOptionsEnum", "KeepOrExpiry", "ExpiryOrKeep", "SetOptions",
                             "CommandOptions"}
      [] kind = "prim" -> {"OptionString", "OptionI64", "Unit", "GET", "Bytes", "ByteBuf"}
      [] kind = "int" -> {"i64"} \cup DOMAIN Widths
      [] kind = "seq" -> {"VecString"}
      [] kind = "nested" -> {"VecVecString"}
      [] kind = "marker" -> {"GET"}
      [] kind = "map" -> {"MapStringI64"}
      [] kind = "auth" -> {"Auth"}

(***************************************************************************)
(* Callers decoding one buffer side by side: each from_slice call builds   *)
(* its own Deserializer { input } over the shared, immutable bytes         *)
(***************************************************************************)
Callers == {"a", "b"}
\* the most decodes one caller makes, one after another
MaxDecodes == 2

Idle == [pc |-> "idle", target |-> "none", input |-> <<>>, n |-> None, acc |-> <<>>,
         res |-> [st |-> "none"], runs |-> 0]

(***************************************************************************)
(* The FoundationDB client (fdb/src/client.rs) before any call             *)
(***************************************************************************)
\* what one underlying C call has seen: how often it was invoked, and how
\* the last invocation returned ("none" while it has not)
NeverCalled == [invoked |-> 0, ret |-> "none"]

TaskIdle == [pc |-> "idle", fn |-> "none", version |-> 0, sel |-> "none", setup |-> "none",
             run |-> "none", new |-> "none", did |-> {}, calls |-> 0]

ClientAtStart ==
    /\ statics = [API_VERSION_SET |-> 0, NETWORK_SETUP |-> FALSE, NETWORK_STARTED |-> FALSE]
    /\ fdbc = [select_api_version_impl |-> NeverCalled, setup_network |-> NeverCalled,
               run_network |-> NeverCalled]
    /\ thr = [t \in Callers |-> TaskIdle]

(***************************************************************************)
(* The retry wrapper exec (fdb/src/transaction.rs) before it is called     *)
(***************************************************************************)
\* invocations: what every call f(&mut tx) was given and returned;
\* on_errors: what every fdb_transaction_on_error was given and answered
NotCalled == [pc |-> "idle", tx |-> 0, e |-> "none", invocations |-> <<>>,
              on_errors |-> <<>>, returned |-> [st |-> "none"]]

(***************************************************************************)
(* The state machine: a buffer arrives, one decode call is made on it      *)
(***************************************************************************)
Init ==
    /\ scen \in SetScenarios \cup CommandScenarios \cup FrameScenarios
                  \cup StreamScenarios \cup PrimScenarios \cup IntScenarios
                  \cup SeqScenarios \cup MarkerScenarios \cup MapScenarios
                  \cup AuthScenarios
    /\ buf = IF scen.kind = "prim" THEN PrimBuf(scen) ELSE BufOf(scen)
    /\ overflow_checks \in BOOLEAN
    /\ target = "none"
    /\ input = buf
    /\ res = [st |-> "none"]
    /\ pc = "start"
    /\ api = "none"
    /\ ret = [st |-> "none"]
    /\ dec = [t \in Callers |-> Idle]
    /\ ClientAtStart
    /\ txn = NotCalled

\* the Result<T> of from_slice and from_reader: the value or the error; the
\* Deserializer and its cursor are dropped
Returned(r) == [st |-> r.st, val |-> r.val, err |-> r.err]

\* the shape main decodes what it read from the socket as
TopLevelTargets == {"Commands"}

\* parser::from_slice::<T>(buf)
FromSlice ==
    /\ pc = "start"
    /\ \E t \in TargetsOf(scen.kind) :
         /\ target' = t
         /\ res' = from_slice(ShapeOf(t), buf)
    /\ input' = IF res'.st = "panic" THEN input ELSE res'.rest
    /\ api' = "from_slice"
    /\ ret' = Returned(res')
    /\ pc' = "done"
    /\ UNCHANGED <<scen, buf, overflow_checks, other_vars>>

\* from_reader::<T>(reader) with buf the bytes the reader yields: the value
\* is returned only when the whole buffer was consumed
FromReader ==
    /\ pc = "start"
    /\ \E t \in TargetsOf(scen.kind) \cap TopLevelTargets :
         /\ target' = t
         /\ res' = Deserialize(ShapeOf(t), buf)
    /\ input' = IF res'.st = "panic" THEN input ELSE res'.rest
    /\ api' = "from_reader"
    /\ ret' = IF res'.st = "ok" /\ res'.rest # <<>>
              THEN [st |-> "err", val |-> NoVal, err |-> [kind |-> "TrailingCharacters"]]
              ELSE Returned(res')
    /\ pc' = "done"
    /\ UNCHANGED <<scen, buf, overflow_checks, other_vars>>

\* <T as TryParse>::try_parse(buf), and the nom functions under it
TryParse ==
    /\ pc = "start"
    /\ \E d \in DecodersOf(scen.kind) :
         /\ target' = d
         /\ res' = Decode(d, buf)
    /\ input' = IF res'.st = "ok" THEN res'.rest ELSE input
    /\ api' = "try_parse"
    /\ ret' = res'
    /\ pc' = "done"
    /\ UNCHANGED <<scen, buf, overflow_checks, other_vars>>

Next == FromSlice \/ FromReader \/ TryParse

Spec == Init /\ [][Next]_vars

(***************************************************************************)
(* The state machine of side-by-side decodes: a caller's decode of a       *)
(* sequence proceeds element by element, interleaved with the others'      *)
(***************************************************************************)
SharedScenarios == {s \in SeqScenarios : s.kind = "seq" /\ s.head \in {0, 1}}
SharedTargets == {"VecString", "Bytes"}

InitShared ==
    /\ scen \in SharedScenarios
    /\ buf = BufOf(scen)
    /\ overflow_checks = TRUE
    /\ target = "none"
    /\ input = buf
    /\ res = [st |-> "none"]
    /\ pc = "shared"
    /\ api = "none"
    /\ ret = [st |-> "none"]
    /\ dec = [t \in Callers |-> Idle]
    /\ ClientAtStart
    /\ txn = NotCalled

\* Deserializer::from_slice(s): a new cursor at the start of the bytes
Deserializer_from_slice(s) == [input |-> s]

\* self.input = i after an element: every Deserializer moved, as if the
\* cursor were one static shared by the calls
advance_every_cursor(d, t, r) ==
    [u \in DOMAIN d |->
        IF u = t THEN [d[u] EXCEPT !.input = r.rest, !.n = SliceStep(@), !.acc = Append(@, r.val)]
        ELSE [d[u] EXCEPT !.input = r.rest]]
\* self.input = i after an element, on the caller's own Deserializer, and
\* the Slice's countdown
Advance(d, t, r) ==
    [d EXCEPT ![t].input = r.rest, ![t].n = SliceStep(@), ![t].acc = Append(@, r.val)]

\* from_slice::<T>(buf) up to the first element request
Begin(t) ==
    /\ dec[t].pc = "idle"
    /\ \E T \in SharedTargets :
         LET de == Deserializer_from_slice(buf)
             h == seq_header(de.input)
             started == [dec[t] EXCEPT !.target = T, !.runs = @ + 1]
         IN  dec' = [dec EXCEPT ![t] =
                        IF ShapeOf(T).k # "seq"
                        THEN [started EXCEPT !.pc = "done", !.res = Deserialize(ShapeOf(T), de.input)]
                        ELSE IF h.st # "ok" THEN [started EXCEPT !.pc = "done", !.res = h]
                        ELSE [started EXCEPT !.pc = "elems", !.input = h.rest, !.n = h.val,
                                             !.acc = <<>>]]
    /\ UNCHANGED <<parser_vars, client_vars, txn>>

\* Slice::next_element_seed with elements left: one element is decoded
Element(t) ==
    /\ dec[t].pc = "elems"
    /\ ~SliceDone(dec[t].n)
    /\ LET r == Deserialize(ShapeOf(dec[t].target).of, dec[t].input)
       IN  dec' = IF r.st = "ok" THEN Advance(dec, t, r)
                  ELSE [dec EXCEPT ![t].pc = "done", ![t].res = r]
    /\ UNCHANGED <<parser_vars, client_vars, txn>>

\* Slice::next_element_seed at the end: the visitor returns the Vec
Finish(t) ==
    /\ dec[t].pc = "elems"
    /\ SliceDone(dec[t].n)
    /\ dec' = [dec EXCEPT ![t].pc = "done", ![t].res = Ok(dec[t].input, dec[t].acc)]
    /\ UNCHANGED <<parser_vars, client_vars, txn>>

\* the caller drops the result and decodes the buffer again
Again(t) ==
    /\ dec[t].pc = "done"
    /\ dec[t].runs < MaxDecodes
    /\ dec' = [dec EXCEPT ![t] = [Idle EXCEPT !.runs = dec[t].runs]]
    /\ UNCHANGED <<parser_vars, client_vars, txn>>

NextShared == \E t \in Callers : Begin(t) \/ Element(t) \/ Finish(t) \/ Again(t)

SpecShared == InitShared /\ [][NextShared]_vars

(***************************************************************************)
(* The state machine of the FoundationDB client: tasks call               *)
(* Client::select_api_version and Client::new; every atomic operation and  *)
(* every entry to and return from the C library is one step                *)
(***************************************************************************)
\* fdb_c::FDB_API_VERSION of the build, and fdb_get_max_api_version()
FDB_API_VERSION == 730
MaxApiVersion == 730
SupportedVersions == {510, 520, 600, 610, 620, 630, 700, 710, 730}
\* the versions tasks ask for
Versions == {510, 730, 99999}
\* the most calls one task makes, one after another
MaxCalls == 2

\* select_api_version's first test
Supported(version) ==
    ~(version > FDB_API_VERSION \/ version > MaxApiVersion \/ version \notin SupportedVersions)

\* a plain store in place of the compare-and-exchange
store_unconditionally(current, expected, new) == [ok |-> TRUE, prev |-> current, now |-> new]
\* AtomicI32 / AtomicBool::compare_exchange(expected, new, ..): Ok(previous)
\* and the new value stored, or Err(previous) and the value kept
compare_exchange(current, expected, new) ==
    IF current = expected THEN [ok |-> TRUE, prev |-> current, now |-> new]
    ELSE [ok |-> FALSE, prev |-> current, now |-> current]

\* select_api_version returns result: to its caller, or into Client::new,
\* where .expect("Invalid API version") panics on an Err
select_returns(k, result) ==
    IF k.fn = "select" THEN [k EXCEPT !.sel = result, !.pc = "idle"]
    ELSE IF result = "Ok" THEN [k EXCEPT !.sel = result, !.pc = "setup"]
    ELSE [k EXCEPT !.sel = result, !.new = "panic", !.pc = "idle"]

InitClient ==
    /\ scen = [kind |-> "none"]
    /\ buf = <<>>
    /\ overflow_checks = TRUE
    /\ target = "none"
    /\ input = <<>>
    /\ res = [st |-> "none"]
    /\ pc = "client"
    /\ api = "none"
    /\ ret = [st |-> "none"]
    /\ dec = [t \in Callers |-> Idle]
    /\ ClientAtStart
    /\ txn = NotCalled

\* a task calls Client::select_api_version(version)
CallSelectApiVersion(t) ==
    /\ thr[t].pc = "idle"
    /\ thr[t].calls < MaxCalls
    /\ \E v \in Versions :
         thr' = [thr EXCEPT ![t] = [TaskIdle EXCEPT !.pc = "select", !.fn = "select",
                                                    !.version = v, !.calls = thr[t].calls + 1]]
    /\ UNCHANGED <<parser_vars, dec, txn, statics, fdbc>>

\* a task calls Client::new(), which selects get_max_api_version()
CallNew(t) ==
    /\ thr[t].pc = "idle"
    /\ thr[t].calls < MaxCalls
    /\ thr' = [thr EXCEPT ![t] = [TaskIdle EXCEPT !.pc = "select", !.fn = "new",
                                                 !.version = MaxApiVersion,
                                                 !.calls = thr[t].calls + 1]]
    /\ UNCHANGED <<parser_vars, dec, txn, statics, fdbc>>

\* select_api_version up to the compare_exchange on API_VERSION_SET
SelectCompareExchange(t) ==
    /\ thr[t].pc = "select"
    /\ LET k == thr[t]
           cx == compare_exchange(statics.API_VERSION_SET, 0, k.version)
       IN  IF ~Supported(k.version)
           THEN /\ thr' = [thr EXCEPT ![t] = select_returns(k, "APIVersionNotSupported")]
                /\ UNCHANGED statics
           ELSE /\ statics' = [statics EXCEPT !.API_VERSION_SET = cx.now]
                /\ thr' = [thr EXCEPT ![t] =
                             IF cx.ok THEN [k EXCEPT !.pc = "select_impl"]
                             ELSE IF cx.prev = k.version THEN select_returns(k, "Ok")
                             ELSE select_returns(k, "APIVersionSingletonViolated")]
    /\ UNCHANGED <<parser_vars, dec, txn, fdbc>>

\* fdb_c::fdb_select_api_version_impl is entered
InvokeSelectApiVersionImpl(t) ==
    /\ thr[t].pc = "select_impl"
    /\ fdbc' = [fdbc EXCEPT !.select_api_version_impl =
                   [invoked |-> @.invoked + 1, ret |-> "none"]]
    /\ thr' = [thr EXCEPT ![t].pc = "in_select_impl", ![t].did = @ \cup {"select_api_version_impl"}]
    /\ UNCHANGED <<parser_vars, dec, txn, statics>>

\* fdb_select_api_version_impl returns 0 or an error code
ReturnSelectApiVersionImpl(t) ==
    /\ thr[t].pc = "in_select_impl"
    /\ \E zero \in BOOLEAN :
         /\ fdbc' = [fdbc EXCEPT !.select_api_version_impl.ret = IF zero THEN "ok" ELSE "err"]
         /\ thr' = [thr EXCEPT ![t] = select_returns(thr[t], IF zero THEN "Ok" ELSE "FdbError")]
    /\ UNCHANGED <<parser_vars, dec, txn, statics>>

\* setup_network up to the compare_exchange on NETWORK_SETUP
SetupCompareExchange(t) ==
    /\ thr[t].pc = "setup"
    /\ LET cx == compare_exchange(statics.NETWORK_SETUP, FALSE, TRUE)
       IN  /\ statics' = [statics EXCEPT !.NETWORK_SETUP = cx.now]
           /\ thr' = [thr EXCEPT ![t] =
                        IF cx.ok THEN [@ EXCEPT !.pc = "setup_impl"]
                        ELSE [@ EXCEPT !.setup = "Ok", !.pc = "run"]]
    /\ UNCHANGED <<parser_vars, dec, txn, fdbc>>

\* fdb_c::fdb_setup_network is entered
InvokeSetupNetwork(t) ==
    /\ thr[t].pc = "setup_impl"
    /\ fdbc' = [fdbc EXCEPT !.setup_network = [invoked |-> @.invoked + 1, ret |-> "none"]]
    /\ thr' = [thr EXCEPT ![t].pc = "in_setup_impl", ![t].did = @ \cup {"setup_network"}]
    /\ UNCHANGED <<parser_vars, dec, txn, statics>>

\* fdb_setup_network returns 0, or an error code that Client::new returns
ReturnSetupNetwork(t) ==
    /\ thr[t].pc = "in_setup_impl"
    /\ \E zero \in BOOLEAN :
         /\ fdbc' = [fdbc EXCEPT !.setup_network.ret = IF zero THEN "ok" ELSE "err"]
         /\ thr' = [thr EXCEPT ![t] =
                      IF zero THEN [@ EXCEPT !.setup = "Ok", !.pc = "run"]
                      ELSE [@ EXCEPT !.setup = "FdbError", !.new = "Err", !.pc = "idle"]]
    /\ UNCHANGED <<parser_vars, dec, txn, statics>>

\* the spawned run_network up to the compare_exchange on NETWORK_STARTED
RunCompareExchange(t) ==
    /\ thr[t].pc = "run"
    /\ LET cx == compare_exchange(statics.NETWORK_STARTED, FALSE, TRUE)
       IN  /\ statics' = [statics EXCEPT !.NETWORK_STARTED = cx.now]
           /\ thr' = [thr EXCEPT ![t] =
                        IF cx.ok THEN [@ EXCEPT !.pc = "run_impl"]
                        ELSE [@ EXCEPT !.run = "Ok", !.new = "Ok", !.pc = "idle"]]
    /\ UNCHANGED <<parser_vars, dec, txn, fdbc>>

\* fdb_c::fdb_run_network is entered on the blocking thread
InvokeRunNetwork(t) ==
    /\ thr[t].pc = "run_impl"
    /\ fdbc' = [fdbc EXCEPT !.run_network = [invoked |-> @.invoked + 1, ret |-> "none"]]
    /\ thr' = [thr EXCEPT ![t].pc = "in_run_impl", ![t].did = @ \cup {"run_network"}]
    /\ UNCHANGED <<parser_vars, dec, txn, statics>>

\* poll!(handle): the network thread is still running and new returns
\* Ok(Self), or fdb_run_network has returned an error and new returns it
PollNetworkThread(t) ==
    /\ thr[t].pc = "in_run_impl"
    /\ \E pending \in BOOLEAN :
         /\ fdbc' = [fdbc EXCEPT !.run_network.ret = IF pending THEN "none" ELSE "err"]
         /\ thr' = [thr EXCEPT ![t] =
                      IF pending THEN [@ EXCEPT !.new = "Ok", !.pc = "idle"]
                      ELSE [@ EXCEPT !.run = "FdbError", !.new = "Err", !.pc = "idle"]]
    /\ UNCHANGED <<parser_vars, dec, txn, statics>>

NextClient ==
    \E t \in Callers :
        \/ CallSelectApiVersion(t) \/ CallNew(t)
        \/ SelectCompareExchange(t) \/ InvokeSelectApiVersionImpl(t)
        \/ ReturnSelectApiVersionImpl(t)
        \/ SetupCompareExchange(t) \/ InvokeSetupNetwork(t) \/ ReturnSetupNetwork(t)
        \/ RunCompareExchange(t) \/ InvokeRunNetwork(t) \/ PollNetworkThread(t)

SpecClient == InitClient /\ [][NextClient]_vars

\* a process whose tasks only call Client::new
NextNew ==
    \E t \in Callers :
        \/ CallNew(t)
        \/ SelectCompareExchange(t) \/ InvokeSelectApiVersionImpl(t)
        \/ ReturnSelectApiVersionImpl(t)
        \/ SetupCompareExchange(t) \/ InvokeSetupNetwork(t) \/ ReturnSetupNetwork(t)
        \/ RunCompareExchange(t) \/ InvokeRunNetwork(t) \/ PollNetworkThread(t)

SpecNew == InitClient /\ [][NextNew]_vars

(***************************************************************************)
(* The transaction retry wrapper (fdb/src/transaction.rs, exec)            *)
(***************************************************************************)
Transactions == {1, 2}
\* the most invocations of the transaction logic in one run
MaxInvocations == 3

Generic(code) == [variant |-> "Generic", code |-> code]
KeyNotFound == [variant |-> "KeyNotFound"]
ActionInvalidBeforeNetworkConfig == [variant |-> "ActionInvalidBeforeNetworkConfig"]
\* the errors the transaction logic returns: not_committed, transaction_too_old,
\* and two that carry no FoundationDB code of their own
TransactionErrors == {Generic(1020), Generic(1007), KeyNotFound,
                      ActionInvalidBeforeNetworkConfig}

FdbErrorCode_from(value) ==
    CASE value.variant = "APIVersionNotSupported" -> 2203
      [] value.variant = "APIVersionSingletonViolated" -> 2201
      [] value.variant = "NetworkSingletonViolated" -> 2009
      [] value.variant = "ActionInvalidBeforeNetworkConfig" -> 2008
      [] value.variant = "Generic" -> value.code
      [] OTHER -> -1

LogicOk == [st |-> "Ok"]
LogicErr(e) == [st |-> "Err", e |-> e]

InitExec ==
    /\ scen = [kind |-> "none"]
    /\ buf = <<>>
    /\ overflow_checks = TRUE
    /\ target = "none"
    /\ input = <<>>
    /\ res = [st |-> "none"]
    /\ pc = "exec"
    /\ api = "none"
    /\ ret = [st |-> "none"]
    /\ dec = [t \in Callers |-> Idle]
    /\ ClientAtStart
    /\ txn = NotCalled

\* exec(tx, f) is called with a transaction
CallExec ==
    /\ pc = "exec"
    /\ txn.pc = "idle"
    /\ \E tx \in Transactions : txn' = [txn EXCEPT !.pc = "f", !.tx = tx]
    /\ UNCHANGED <<parser_vars, dec, client_vars>>

\* let result = f(&mut tx).await; Ok(r) => Ok(r)
InvokeLogic ==
    /\ pc = "exec"
    /\ txn.pc = "f"
    /\ Len(txn.invocations) < MaxInvocations
    /\ \E result \in {LogicOk} \cup {LogicErr(e) : e \in TransactionErrors} :
         txn' = [txn EXCEPT
                   !.invocations = Append(@, [tx |-> txn.tx, result |-> result]),
                   !.pc = IF result.st = "Ok" THEN "done" ELSE "on_error",
                   !.e = IF result.st = "Ok" THEN "none" ELSE result.e,
                   !.returned = IF result.st = "Ok" THEN LogicOk ELSE @]
    /\ UNCHANGED <<parser_vars, dec, client_vars>>

\* the mutant of match_should_be_retried: the error is handed back whatever
\* fdb_transaction_on_error answered
give_up_at_once(e, should_be_retried) == [pc |-> "done", returned |-> LogicErr(e)]

\* if should_be_retried { Box::pin(exec(tx, f)).await } else { Err(e) }
match_should_be_retried(e, should_be_retried) ==
    IF should_be_retried THEN [pc |-> "f", returned |-> [st |-> "none"]]
    ELSE [pc |-> "done", returned |-> LogicErr(e)]

\* Err(e) => fdb_transaction_on_error(tx.0, error_code.0) is awaited; the
\* C library decides whether the transaction may be retried
AwaitOnError ==
    /\ pc = "exec"
    /\ txn.pc = "on_error"
    /\ \E should_be_retried \in BOOLEAN :
         LET error_code == FdbErrorCode_from(txn.e)
             next == match_should_be_retried(txn.e, should_be_retried)
         IN txn' = [txn EXCEPT
                      !.on_errors = Append(@, [tx |-> txn.tx, code |-> error_code,
                                               ok |-> should_be_retried]),
                      !.pc = next.pc,
                      !.e = "none",
                      !.returned = next.returned]
    /\ UNCHANGED <<parser_vars, dec, client_vars>>

NextExec == CallExec \/ InvokeLogic \/ AwaitOnError

SpecExec == InitExec /\ [][NextExec]_vars

(***************************************************************************)
(* Properties                                                              *)
(***************************************************************************)
Done == pc = "done"
UntaggedTargets == {"Commands", "SetOptionsEnum", "KeepOrExpiry", "ExpiryOrKeep"}
\* the decode of the k-th declared candidate of the target, alone, on the buffer
Trial(k) == from_slice(ShapeOf(target).variants[k].ty[1], buf)
Candidates == DOMAIN ShapeOf(target).variants

\* the enums the parser itself declares with DeserializeUntagged
DeclaredEnums == {"Commands", "SetOptionsEnum"}

\* C1: untagged resolution tries the candidates in declaration order and
\* returns the first whose decode succeeds.  A returned candidate decodes
\* the buffer, carries the value its decode gave, and every candidate
\* declared before it failed with an error; a candidate that decodes the
\* buffer after every earlier one failed is the one returned, so of two
\* candidates that both decode the bytes the earlier wins; and on the
\* enums the parser declares, whenever some candidate decodes the buffer
\* the earliest such candidate is returned.
C1_FirstMatchInDeclarationOrder ==
    (Done /\ target \in UntaggedTargets) =>
        /\ res.st = "ok" =>
             /\ res.val.variant \in Candidates
             /\ Trial(res.val.variant).st = "ok"
             /\ res.val.inner = Trial(res.val.variant).val
             /\ \A j \in 1..(res.val.variant - 1) : Trial(j).st = "err"
        /\ \A k \in Candidates :
             (Trial(k).st = "ok" /\ \A j \in 1..(k - 1) : Trial(j).st = "err")
                 => (res.st = "ok" /\ res.val.variant = k)
        /\ \A k \in Candidates :
             (target \in DeclaredEnums /\ Trial(k).st = "ok"
                  /\ \A j \in 1..(k - 1) : Trial(j).st # "ok")
                 => (res.st = "ok" /\ res.val.variant = k)

\* C1 witness: two candidates decode the same bytes and the earlier one is returned
C1_TieGoesToEarlier ==
    /\ Done /\ target = "KeepOrExpiry" /\ res.st = "ok"
    /\ res.val.variant = 1 /\ Trial(1).st = "ok" /\ Trial(2).st = "ok"

\* the bytes the first modifier of a token stream takes, when the stream
\* starts with a modifier of SET: EX takes the number after it
LeadingModifierLen(toks) ==
    IF toks = <<>> THEN 0
    ELSE IF Toks[toks[1]].str \in {Some(<<"K", "E", "E", "P", "T", "T", "L">>), Some(<<"N", "X">>), Some(<<"G", "E", "T">>), Some(<<"g", "e", "t">>)}
    THEN Len(Toks[toks[1]].bytes)
    ELSE IF Len(toks) >= 2 /\ Toks[toks[1]].str = Some(<<"E", "X">>) /\ Toks[toks[2]].str = Some(<<"7">>)
    THEN Len(Toks[toks[1]].bytes) + Len(Toks[toks[2]].bytes)
    ELSE 0

\* C2: when untagged resolution succeeds, the deserializer's cursor has
\* moved by exactly the bytes the winning candidate's decode consumed: what
\* is left is what the winning trial left, a proper suffix of the buffer,
\* and for a stream of SET modifiers it starts right after the first modifier.
C2_CursorAdvancedByWinner ==
    (Done /\ target \in UntaggedTargets /\ res.st = "ok") =>
        /\ input = Trial(res.val.variant).rest
        /\ IsSuffix(input, buf) /\ Len(input) < Len(buf)
        /\ (target = "SetOptionsEnum" /\ LeadingModifierLen(scen.toks) > 0)
               => input = Drop(buf, LeadingModifierLen(scen.toks))

\* C2 witness: a modifier is committed and bytes of the next token remain
C2_CommittedWithBytesLeft ==
    /\ Done /\ target = "SetOptionsEnum" /\ res.st = "ok"
    /\ input # <<>> /\ input = Drop(buf, LeadingModifierLen(scen.toks))
    /\ LeadingModifierLen(scen.toks) > 0


\* C3: when no candidate decodes the buffer, untagged resolution fails with
\* one aggregate error that holds the failure of every declared candidate,
\* in order, and the deserializer's cursor is where it was before.
C3_AggregateErrorWhenNoneDecodes ==
    (Done /\ target \in UntaggedTargets /\ \A k \in Candidates : Trial(k).st # "ok") =>
        /\ res.st = "err"
        /\ res.err.kind = "Custom" /\ res.err.msg = "No fitting option found"
        /\ Len(res.err.errors) = Len(ShapeOf(target).variants)
        /\ \A k \in Candidates : res.err.errors[k] = Trial(k).err
        /\ input = buf

\* two modifiers of the frame belong to the same Options slot
HasDuplicateSlot(mods) ==
    \E a, b \in DOMAIN mods : a < b /\ Modifiers[mods[a]].slot = Modifiers[mods[b]].slot

\* C4: a SET frame whose modifiers populate one Options slot twice does not
\* decode: the result is an error, never a value that kept one of the two.
C4_DuplicateSlotIsAnError ==
    (Done /\ scen.kind = "set" /\ HasDuplicateSlot(scen.mods)) => res.st = "err"

\* the Options a SET frame's modifiers stand for: each slot holds the
\* modifier written for it, None when there is none
ExpectedOptions(mods) ==
    [slot \in 1..3 |->
        IF \E k \in DOMAIN mods : Modifiers[mods[k]].slot = slot
        THEN Some(Modifiers[mods[CHOOSE k \in DOMAIN mods : Modifiers[mods[k]].slot = slot]].val)
        ELSE None]

\* the buffer is the frame alone, or the frame and then another frame
EndsAtFrame(s) == s.tail = 1 \/ Take(Tails[s.tail], 1) = <<"*">>

RECURSIVE LeadingNames(_)
LeadingNames(toks) ==
    IF toks = <<>> \/ Toks[Head(toks)].str = None THEN 0 ELSE 1 + LeadingNames(Tail(toks))

\* C6: option aggregation stores the tokens that match an option shape
\* and stops without an error at the first token that matches none, or
\* at the end of the input: decoding COMMAND's Options from a token
\* stream that does not fill the slot twice returns the slot collected so
\* far and leaves the cursor at the first unmatched token.
C6_StopsAtFirstUnmatchedToken ==
    (Done /\ target = "CommandOptions" /\ LeadingNames(scen.toks) <= 1) =>
        /\ res.st = "ok"
        /\ res.val = <<IF LeadingNames(scen.toks) = 1
                       THEN Some(<<Toks[scen.toks[1]].str[1]>>) ELSE None>>
        /\ input = TokBytes(SubSeq(scen.toks, LeadingNames(scen.toks) + 1, Len(scen.toks)))

\* the command names, by the variant of Commands
CommandNames == <<<<"g", "e", "t">>, <<"s", "e", "t">>, <<"h", "e", "l", "l", "o">>, <<"c", "o", "m", "m", "a", "n", "d">>>>

\* C7: a frame decodes as a variant of Commands only if its first element
\* is a string equal to that command's name without regard to case; any
\* other frame, the empty array and a non-string first element included,
\* is rejected with the error that no variant fits.
C7_VariantOnlyByCommandName ==
    (Done /\ target = "Commands" /\ scen.kind = "frame") =>
        LET named == scen.first # 0 /\ Firsts[scen.first].str # None
            name == to_lowercase(Firsts[scen.first].str[1])
        IN  /\ res.st = "ok" => (named /\ name = CommandNames[res.val.variant])
            /\ (~named \/ \A k \in DOMAIN CommandNames : name # CommandNames[k])
                   => (res.st = "err" /\ res.err.msg = "No fitting option found")

\* C8: decoding a command from an array frame of declared count N consumes
\* no wire value after the N-th element: the cursor never passes the end
\* of the frame, a trailing Options aggregate included.
C8_NeverReadsPastTheFrame ==
    (Done /\ scen.kind \in {"set", "command"} /\ res.st # "panic") =>
        Len(input) >= Len(Tails[scen.tail])

\* C9: every token decoder either succeeds and returns a remainder that is
\* a proper suffix of its buffer, or fails with a decode error and
\* consumes nothing.
C9_ProperSuffixOrError ==
    (Done /\ scen.kind = "prim") =>
        \/ res.st = "ok" /\ IsSuffix(res.rest, buf) /\ Len(res.rest) < Len(buf)
             /\ input = res.rest
        \/ res.st = "err" /\ input = buf

\* C10: every decode, of any buffer as any target shape, ends with a
\* value or a decode error; none panics.
C10_NoPanic ==
    Done => res.st \in {"ok", "err"}


\* what a caller can match on in an error: the variant of Error and, for
\* Error::Parsing, nom's ErrorKind; the bytes a Parsing error echoes are a
\* suffix of the caller's own buffer
ErrorClass(e) == IF e.kind = "Parsing" THEN <<e.kind, e.code>> ELSE <<e.kind>>

\* a buffer against the grammar of one bulk string, "$" length CRLF payload
\* CRLF with a length of at most 512 MiB: "complete" when it starts with a
\* whole frame, "incomplete" when it is a proper prefix of one, "malformed"
\* when no bytes appended to it make a frame
BulkShape(b) ==
    IF b = <<>> THEN "incomplete"
    ELSE IF b[1] # "$" THEN "malformed"
    ELSE LET n == PrefixLen(Tail(b), DigitSet)
             after == Drop(b, 1 + n)
             mag == StripZeros(Take(Tail(b), n))
             len == LenOf([mag |-> mag], b)
             payload == Drop(after, 2)
         IN  IF after = <<>> THEN "incomplete"
             ELSE IF n = 0 THEN "malformed"
             ELSE IF after = <<CR>> THEN "incomplete"
             ELSE IF Take(after, 2) # CRLF \/ MagLess(BulkMaxMag, mag) THEN "malformed"
             ELSE IF Len(payload) <= len THEN "incomplete"
             ELSE IF payload[len + 1] # CR THEN "malformed"
             ELSE IF Len(payload) = len + 1 THEN "incomplete"
             ELSE IF payload[len + 2] # LF THEN "malformed"
             ELSE "complete"

\* C11: a buffer that is a proper prefix of a well-formed bulk string fails
\* to decode with an error the caller can tell apart from the error of
\* every buffer that violates the grammar: no malformed buffer gives an
\* error of the same class.
C11_IncompleteToldApart ==
    (/\ Done /\ api = "try_parse" /\ target = "bulk_string"
     /\ buf # <<>> /\ BulkShape(buf) = "incomplete") =>
        /\ res.st = "err"
        /\ \A s \in PrimScenarios :
             BulkShape(PrimBuf(s)) = "malformed"
                 => ErrorClass(bulk_string(PrimBuf(s)).err) # ErrorClass(res.err)


\* C12: a top-level decode (from_slice, from_reader) of a buffer holding a
\* complete SET frame followed by another frame returns the command
\* together with the unconsumed remainder, the bytes of the following
\* frame, so that the caller can decode pipelined commands one by one.
C12_ReturnsCommandAndRemainder ==
    (/\ Done /\ api \in {"from_slice", "from_reader"} /\ target = "Commands"
     /\ scen.kind = "set" /\ ~HasDuplicateSlot(scen.mods) /\ scen.tail = 3) =>
        /\ ret.st = "ok"
        /\ "rest" \in DOMAIN ret
        /\ ret.rest = Tails[scen.tail]


\* the three null tokens of the wire: null bulk string, null array, null
NullTokens == {<<"$", "-", "1">> \o CRLF, <<"*", "-", "1">> \o CRLF, <<"_">> \o CRLF}

StartsWithNull(b) == \E n \in NullTokens : Len(b) >= Len(n) /\ Take(b, Len(n)) = n

\* C13: at an Option target the result is None, with the token consumed,
\* only when the next token is one of the null tokens; for every other
\* input the inner decoder is run on it, and the result is Some of its
\* value with its remainder, or its error.
C13_NoneOnlyForNull ==
    (Done /\ api = "from_slice" /\ scen.kind = "prim" /\ target \in {"OptionString", "OptionI64"}) =>
        LET inner == Deserialize(ShapeOf(target).of, buf)
        IN  IF StartsWithNull(buf)
            THEN \E n \in NullTokens :
                    Len(buf) >= Len(n) /\ Take(buf, Len(n)) = n /\ res = Ok(Drop(buf, Len(n)), None)
            ELSE /\ inner.st = "ok" => res = Ok(inner.rest, Some(inner.val))
                 /\ inner.st = "err" => res.st = "err" /\ res.err = inner.err


C16_LengthLessEndsAtExhaustion ==
    (Done /\ scen.kind = "seq" /\ scen.head = 0) =>
        res = Ok(<<>>, [k \in 1..Len(scen.items) |-> Items[scen.items[k]].val])


\* the integer a wire-integer scenario spells
WireInt(s) == IntVal(Signs[s.sign] = <<"-">>, Mags[s.mag])

\* v lies within the range of the width, W::MIN ..= W::MAX
InRange(v, w) == ~IntLess(v, Widths[w].min) /\ ~IntLess(Widths[w].max, v)

\* C17: at each integer target width W of i8, i16, i32, u8, u16, u32 and
\* u64 a wire integer v (of magnitude at most i64::MAX) decodes to v when v
\* lies within W's range, and fails with IntegerOutOfRange(W::MIN, W::MAX, v)
\* when it does not; every v of 0..=i64::MAX decodes at u64.
C17_RangeCheckedPerWidth ==
    (/\ Done /\ api = "from_slice" /\ scen.kind = "int" /\ target \in DOMAIN Widths
     /\ ~MagLess(I64MaxMag, Mags[scen.mag])) =>
        IF InRange(WireInt(scen), target)
        THEN res = Ok(<<>>, WireInt(scen))
        ELSE /\ res.st = "err"
             /\ res.err = IntegerOutOfRange(Widths[target].min, Widths[target].max, WireInt(scen))


\* the wire-integer scenario spells an i64: at most i64::MAX, or i64::MIN
IsI64(s) ==
    \/ ~MagLess(I64MaxMag, Mags[s.mag])
    \/ Signs[s.sign] = <<"-">> /\ Mags[s.mag] = <<"9", "2", "2", "3", "3", "7", "2", "0", "3", "6",
                                                "8", "5", "4", "7", "7", "5", "8", "0", "8">>

\* C18: for every i64 value v, i64::MIN and i64::MAX included, the frame
\* ":" decimal-text-of-v CRLF, with an optional "+" before a non-negative
\* v, decodes as Integer and at an i64 target to exactly v, with an empty
\* remainder.
C18_EveryI64RoundTrips ==
    (/\ Done /\ scen.kind = "int" /\ target \in {"Integer", "i64"} /\ IsI64(scen)) =>
        res = Ok(<<>>, WireInt(scen))


\* the size-limit error of bulk_string
IsTooLarge(r) == r.st = "err" /\ r.err.kind = "Parsing" /\ r.err.code = "TooLarge"

\* the buffer is "$", a declared length in decimal digits, CRLF and whatever
\* follows
DeclaresLength(s) ==
    /\ s.kind = "prim" /\ Prefixes[s.prefix] = <<"$">> /\ s.term
    /\ FirstLines[s.line] # <<>>
    /\ PrefixLen(FirstLines[s.line], DigitSet) = Len(FirstLines[s.line])

\* C19: a bulk string whose declared length is greater than 512 * 1024 *
\* 1024 is rejected with the size-limit error whatever bytes follow the
\* length line, and a declared length of 512 * 1024 * 1024 or less is never
\* rejected with it.
C19_SizeLimitAt512MiB ==
    (Done /\ api = "try_parse" /\ target = "bulk_string" /\ DeclaresLength(scen)) =>
        (IsTooLarge(res) <=> MagLess(BulkMaxMag, StripZeros(FirstLines[scen.line])))


\* whether the string token at the start of the buffer spells GET in some
\* letter case; no buffer of the token scenarios does
SpellsMarker(s) == s.kind = "marker" /\ MarkerToks[s.tok].same

\* C20: when the next token is a string, the marker GET decodes successfully
\* exactly when the string equals GET ignoring letter case (GET, get and Get
\* all match), and fails with UnitStructNameMismatch for every other string.
C20_MarkerMatchesIgnoringCase ==
    (/\ Done /\ api = "from_slice" /\ target = "GET" /\ scen.kind \in {"marker", "prim"}
     /\ string(buf).st = "ok") =>
        IF SpellsMarker(scen)
        THEN res = Ok(string(buf).rest, GET.name)
        ELSE res.st = "err" /\ res.err.kind = "UnitStructNameMismatch"


\* C21: a decode at a bytes or byte-buffer target fails with
\* BytesNotSupported whatever the input is; no part of the input is ever
\* returned as bytes.
C21_BytesNotSupported ==
    (Done /\ api = "from_slice" /\ target \in {"Bytes", "ByteBuf"}) =>
        res.st = "err" /\ res.err.kind = "BytesNotSupported"


\* the first n entries of a Map scenario are well-typed for
\* HashMap<String, i64>: a string key and an integer value, alternately
WellTypedEntries(s) ==
    /\ 2 * s.n <= Len(s.toks)
    /\ \A k \in 1..(2 * s.n) : MapToks[s.toks[k]].str <=> (k % 2 = 1)

RECURSIVE EntriesOf(_, _)
\* the map of the first n key/value pairs on the wire, inserted in order
EntriesOf(s, n) ==
    IF n = 0 THEN {}
    ELSE {e \in EntriesOf(s, n - 1) : e[1] # MapToks[s.toks[2 * n - 1]].val}
             \cup {<<MapToks[s.toks[2 * n - 1]].val, MapToks[s.toks[2 * n]].val>>}

\* C22: a Map target decodes a Map header of count N and then exactly 2 * N
\* values, alternately key, value, key, value in wire order: the result is
\* the N pairs as written, and the cursor stands behind the 2 * N-th value,
\* whatever follows.
C22_MapReadsTwoNValues ==
    (Done /\ scen.kind = "map" /\ WellTypedEntries(scen)) =>
        /\ res.st = "ok"
        /\ res.rest = MapTokBytes(scen, 2 * scen.n + 1)
        /\ res.val = EntriesOf(scen, scen.n)

\* a header of count 1 before four values: one pair is decoded, the other
\* two values are left in the buffer
C22_OnePairTwoValuesLeft ==
    /\ Done /\ scen.kind = "map" /\ scen.n = 1 /\ scen.toks = <<2, 4, 1, 3>>
    /\ res.st = "ok"
    /\ res.val = {<< <<"b">>, IntVal(TRUE, <<"5">>) >>}
    /\ res.rest = Bulk(<<"a">>) \o Line(":", <<"1">>)


\* C23: the result of a decode depends only on the bytes of the buffer and
\* on the requested target shape: whatever other decodes of the buffer ran
\* before it or run interleaved with it, a finished decode has the result
\* the same decode gives when it runs alone, and the buffer still holds the
\* bytes it was given.
C23_DecodeDependsOnlyOnBufferAndShape ==
    /\ buf = BufOf(scen)
    /\ \A t \in Callers :
         dec[t].pc = "done" => dec[t].res = from_slice(ShapeOf(dec[t].target), BufOf(scen))

\* caller a is in its second decode, two elements in, while caller b has
\* finished a decode of three elements and started another
C23_SecondDecodeInterleaved ==
    /\ dec["a"].pc = "elems" /\ dec["a"].runs = 2 /\ Len(dec["a"].acc) = 2
    /\ dec["b"].pc = "elems" /\ dec["b"].runs = 2 /\ Len(dec["b"].acc) = 1
    /\ scen.n = 3


\* C24: an AUTH frame with a single argument decodes to Auth with username
\* None and the argument as password; an AUTH frame with two arguments
\* decodes to username Some(first argument) and the second argument as
\* password.  The cursor then stands at the end of the frame.
C24_AuthWithAndWithoutUsername ==
    (Done /\ scen.kind = "auth" /\ target = "Auth") =>
        res = Ok(Tails[scen.tail],
                 <<AUTH.name,
                   IF Len(scen.args) = 1 THEN None ELSE Some(Items[scen.args[1]].val),
                   Items[scen.args[Len(scen.args)]].val>>)


\* C25: in every sequence and interleaving of select_api_version calls the
\* first call with a supported version fixes the process-wide API version;
\* every later call with the same version returns Ok, every later call with
\* a different supported version returns APIVersionSingletonViolated, and
\* the fixed version never changes.
C25_ApiVersionFixedByFirstCall ==
    [][/\ statics.API_VERSION_SET # 0 => statics'.API_VERSION_SET = statics.API_VERSION_SET
       /\ \A t \in Callers :
            (thr[t].pc = "select" /\ thr'[t].pc # "select" /\ Supported(thr[t].version)) =>
                IF statics.API_VERSION_SET = 0
                THEN statics'.API_VERSION_SET = thr[t].version
                ELSE thr'[t].sel = IF thr[t].version = statics.API_VERSION_SET
                                   THEN "Ok" ELSE "APIVersionSingletonViolated"]_vars

\* with version 730 fixed, task a's call with 510 was refused and task b's
\* call with 730 returned Ok without entering the C library
C25_LaterCallsSameAndDifferent ==
    /\ statics.API_VERSION_SET = 730
    /\ thr["a"].fn = "select" /\ thr["a"].version = 510
    /\ thr["a"].sel = "APIVersionSingletonViolated"
    /\ thr["b"].fn = "select" /\ thr["b"].version = 730 /\ thr["b"].sel = "Ok"
    /\ thr["b"].did = {}


\* C26: for any number and interleaving of Client::new calls each of the
\* underlying one-time calls fdb_select_api_version_impl, fdb_setup_network
\* and fdb_run_network is entered at most once, and a caller that does not
\* enter a call itself gets Ok from that step, and from Client::new when it
\* entered none of them.
C26_InitialisedAtMostOnce ==
    /\ \A c \in DOMAIN fdbc : fdbc[c].invoked <= 1
    /\ \A t \in Callers :
         /\ (thr[t].sel # "none" /\ "select_api_version_impl" \notin thr[t].did) => thr[t].sel = "Ok"
         /\ (thr[t].setup # "none" /\ "setup_network" \notin thr[t].did) => thr[t].setup = "Ok"
         /\ (thr[t].run # "none" /\ "run_network" \notin thr[t].did) => thr[t].run = "Ok"
         /\ (thr[t].new # "none" /\ thr[t].did = {}) => thr[t].new = "Ok"

\* both tasks have returned from Client::new: a made the three calls, b
\* made none and got Ok
C26_SecondNewIsNoOp ==
    /\ thr["a"].fn = "new" /\ thr["a"].new = "Ok"
    /\ thr["a"].did = {"select_api_version_impl", "setup_network", "run_network"}
    /\ thr["b"].fn = "new" /\ thr["b"].new = "Ok" /\ thr["b"].did = {}


\* C27: exec returns Ok only when its last invocation of the transaction
\* logic returned Ok; after a failed invocation it awaits on_error with that
\* error's code on the same transaction, invokes the logic again on the same
\* transaction exactly when on_error succeeded, and otherwise returns the
\* error of that invocation.
C27_RetriesWhileOnErrorSucceeds ==
    LET inv == txn.invocations
        oe == txn.on_errors
    IN /\ txn.returned.st = "Ok" =>
             /\ Len(inv) > 0 /\ inv[Len(inv)].result = LogicOk
             /\ Len(oe) = Len(inv) - 1
       /\ txn.returned.st = "Err" =>
             /\ Len(inv) > 0 /\ inv[Len(inv)].result = txn.returned
             /\ Len(oe) = Len(inv) /\ ~oe[Len(oe)].ok
       /\ \A i \in 1..Len(inv) : inv[i].tx = txn.tx
       /\ Len(oe) <= Len(inv)
       /\ \A i \in 1..Len(oe) :
             /\ inv[i].result.st = "Err"
             /\ oe[i].tx = txn.tx
             /\ oe[i].code = FdbErrorCode_from(inv[i].result.e)
             /\ oe[i].ok => (Len(inv) > i \/ (txn.pc = "f" /\ txn.returned.st = "none"))
             /\ ~oe[i].ok => (Len(inv) = i /\ txn.pc = "done" /\ txn.returned.st = "Err")
       /\ \A i \in 1..Len(inv) : i < Len(inv) => inv[i].result.st = "Err"

\* the logic failed twice with different errors, on_error allowed the first
\* retry and refused the second: exec returned the second error
C27_SecondErrorReturned ==
    /\ txn.pc = "done"
    /\ Len(txn.invocations) = 2
    /\ txn.invocations[1].result = LogicErr(Generic(1020))
    /\ txn.invocations[2].result = LogicErr(KeyNotFound)
    /\ txn.returned = LogicErr(KeyNotFound)
    /\ txn.on_errors[1].ok /\ ~txn.on_errors[2].ok


\* C28: in a process whose tasks call Client::new, fdb_setup_network is
\* entered only after fdb_select_api_version_impl has returned successfully,
\* and fdb_run_network only after fdb_setup_network has returned successfully.
C28_EachStepAfterItsPrerequisite ==
    [][/\ fdbc'.setup_network.invoked > fdbc.setup_network.invoked
            => fdbc.select_api_version_impl.ret = "ok"
       /\ fdbc'.run_network.invoked > fdbc.run_network.invoked
            => fdbc.setup_network.ret = "ok"]_vars


\* C29: once fdb_select_api_version_impl (or fdb_setup_network) has returned
\* a non-zero code, no call of select_api_version (or setup_network) returns
\* Ok afterwards.
C29_FailedStepNotRecordedAsDone ==
    [][\A t \in Callers :
         /\ (fdbc.select_api_version_impl.ret = "err" /\ thr[t].sel = "none")
              => thr'[t].sel # "Ok"
         /\ (fdbc.setup_network.ret = "err" /\ thr[t].setup = "none")
              => thr'[t].setup # "Ok"]_vars


\* the iterations of OptionsVisitor::visit_seq that did not end the loop:
\* how many bytes were left before and after each of them
RECURSIVE options_iterations(_, _, _, _)
options_iterations(T, i, n, options) ==
    IF SliceDone(n) THEN <<>>
    ELSE LET next_element(r) ==
                 IF r.st # "ok" THEN <<>>
                 ELSE IF options[r.val.variant] # None THEN <<>>
                 ELSE <<[before |-> Len(i), after |-> Len(r.rest)]>>
                      \o options_iterations(T, r.rest, SliceStep(n),
                             [options EXCEPT ![r.val.variant] = Some(r.val.inner)])
         IN  next_element(deserialize_untagged(OptionsEnum(T), i))

====
